---- MODULE Spec2Model ----
(***************************************************************************)
(* Control-rate scheduling engine of the 32-partial additive synthesizer:  *)
(*   - SineEventScheduler   (js-lib/index.js)                              *)
(*   - EventTimestampTracker (js-lib/EventTimestampTracker.js)             *)
(*   - AdditiveSynthProcessor control loop (simple-additive-01/processor.js)*)
(* The sample renderer is an external collaborator; only its interface     *)
(* (the wasm declarations) is in the repository, so its staging of events  *)
(* is modelled from the interface documentation.                           *)
(*                                                                         *)
(* Numbers: sample positions, ids, counts and frequencies are integers.    *)
(* An amplitude is kept in units of 1/16 (the headroom divisor), with the  *)
(* non-keyboard modulators held at their neutral value 1.0.                *)
(* A nullable field is <<>> (null) or <<v>>.                               *)
(***************************************************************************)
EXTENDS Integers, Sequences, FiniteSets, TLC

\* ---------------------------------------------------------------- constants
EVENT_INTERVAL == 128
MAX_EVENTS_PER_SINE == 8
KEYBOARD_RAMP_SAMPLES == 8
BLOCK_SIZE == 128
DEFAULT_BASE_FREQ == 110
DEFAULT_TRACKER_INTERVAL == 128
F32_EXACT_LIMIT == 16777216
vizUpdateInterval == 8
FALLING_START == 31
FALLING_COUNT == 32
SNAPSHOT_ARRAYS == 12

\* ------------------------------------------------------------------- bounds
\* Partials modelled (the processor runs 32, all treated alike).
NUM_PARTIALS == 2
MaxBlocks == 4
MaxGens == 2
MaxResets == 1
MaxTrkCalls == 9
MaxApiCalls == 7
MaxFaults == 2
\* Blocks run when the snapshot throttle is followed over two periods.
MaxVizBlocks == 17
\* Calls made on a standalone PhaseAccumulator, and the sample positions it is
\* advanced to (in sixteenths of a second).
MaxAccCalls == 5
MaxPosIndex == 3
\* 'set-falling-enabled' messages handled.
MaxFallingMsgs == 2
\* Messages posted to a ToneProcessor, and process() calls made on it.
MaxToneMsgs == 4
MaxToneBlocks == 3

NULL == <<>>
Some(v) == <<v>>
IsNull(x) == x = <<>>
Val(x) == x[1]

Min(a, b) == IF a < b THEN a ELSE b

\* ------------------------------------------------------- Float32Array store
\* The spacing of float32 values around magnitude a: 1 below 2^24, then doubling.
RECURSIVE F32Quantum(_, _)
F32Quantum(a, q) ==
  IF a \div q < F32_EXACT_LIMIT THEN q ELSE F32Quantum(a, 2 * q)

\* What a Float32Array element holds after `buf[k] = x` (round to nearest, ties to even).
Fround(x) ==
  LET a  == IF x < 0 THEN 0 - x ELSE x
      q  == F32Quantum(a, 1)
      m  == a \div q
      r  == a - m * q
      up == IF 2 * r > q \/ (2 * r = q /\ m % 2 = 1) THEN (m + 1) * q ELSE m * q
  IN IF x < 0 THEN 0 - up ELSE up

\* buf[idx] = x on a typed array of fixed length: an index past the end is ignored.
Store(buf, idx, x) ==
  IF idx < Len(buf) THEN [buf EXCEPT ![idx + 1] = Fround(x)] ELSE buf

\* -------------------------------------------------------- SineEventScheduler
BufferSize(maxSines, maxEvents) == maxSines * (3 + maxEvents * 2)

NewScheduler(maxSines, maxEvents) ==
  [ ampBuffer        |-> [k \in 1..BufferSize(maxSines, maxEvents) |-> 0],
    freqBuffer       |-> [k \in 1..BufferSize(maxSines, maxEvents) |-> 0],
    ampOffset        |-> 0,
    freqOffset       |-> 0,
    currentSineId    |-> NULL,
    ampCountIdx      |-> 0,
    freqCountIdx     |-> 0,
    currentAmpCount  |-> 0,
    currentFreqCount |-> 0,
    maxEventsPerSine |-> maxEvents ]

BeginFrameKeepsOffsets(s) == [s EXCEPT !.currentSineId = NULL]

BeginFrame(s) ==
  [s EXCEPT !.ampOffset = 0, !.freqOffset = 0, !.currentSineId = NULL]

OverrideFlagInverted(override) == IF override THEN 0 ELSE 1

OverrideFlag(override) == IF override THEN 1 ELSE 0

BeginSineFlagOnAmplitudeOnly(s, sineId, override) ==
  [s EXCEPT
     !.currentSineId    = Some(sineId),
     !.ampBuffer        = Store(Store(s.ampBuffer, s.ampOffset, sineId),
                                s.ampOffset + 2, OverrideFlag(override)),
     !.ampCountIdx      = s.ampOffset + 1,
     !.ampOffset        = s.ampOffset + 3,
     !.currentAmpCount  = 0,
     !.freqBuffer       = Store(Store(s.freqBuffer, s.freqOffset, sineId),
                                s.freqOffset + 2, 0),
     !.freqCountIdx     = s.freqOffset + 1,
     !.freqOffset       = s.freqOffset + 3,
     !.currentFreqCount = 0]

BeginSine(s, sineId, override) ==
  [s EXCEPT
     !.currentSineId    = Some(sineId),
     !.ampBuffer        = Store(Store(s.ampBuffer, s.ampOffset, sineId),
                                s.ampOffset + 2, OverrideFlag(override)),
     !.ampCountIdx      = s.ampOffset + 1,
     !.ampOffset        = s.ampOffset + 3,
     !.currentAmpCount  = 0,
     !.freqBuffer       = Store(Store(s.freqBuffer, s.freqOffset, sineId),
                                s.freqOffset + 2, OverrideFlag(override)),
     !.freqCountIdx     = s.freqOffset + 1,
     !.freqOffset       = s.freqOffset + 3,
     !.currentFreqCount = 0]

\* The boolean addAmplitudeEvent / addFrequencyEvent return.
AmpEventAccepted(s) == ~(s.currentAmpCount >= s.maxEventsPerSine)
FreqEventAccepted(s) == ~(s.currentFreqCount >= s.maxEventsPerSine)

AddAmplitudeEventOffByOne(s, sample, value) ==
  IF s.currentAmpCount > s.maxEventsPerSine THEN s
  ELSE [s EXCEPT
          !.ampBuffer = Store(Store(s.ampBuffer, s.ampOffset, sample),
                              s.ampOffset + 1, value),
          !.ampOffset = s.ampOffset + 2,
          !.currentAmpCount = s.currentAmpCount + 1]

AddAmplitudeEvent(s, sample, value) ==
  IF s.currentAmpCount >= s.maxEventsPerSine THEN s
  ELSE [s EXCEPT
          !.ampBuffer = Store(Store(s.ampBuffer, s.ampOffset, sample),
                              s.ampOffset + 1, value),
          !.ampOffset = s.ampOffset + 2,
          !.currentAmpCount = s.currentAmpCount + 1]

AddFrequencyEventCapTwo(s, sample, freqHz) ==
  IF s.currentFreqCount >= 2 THEN s
  ELSE [s EXCEPT
          !.freqBuffer = Store(Store(s.freqBuffer, s.freqOffset, sample),
                               s.freqOffset + 1, freqHz),
          !.freqOffset = s.freqOffset + 2,
          !.currentFreqCount = s.currentFreqCount + 1]

AddFrequencyEvent(s, sample, freqHz) ==
  IF s.currentFreqCount >= s.maxEventsPerSine THEN s
  ELSE [s EXCEPT
          !.freqBuffer = Store(Store(s.freqBuffer, s.freqOffset, sample),
                               s.freqOffset + 1, freqHz),
          !.freqOffset = s.freqOffset + 2,
          !.currentFreqCount = s.currentFreqCount + 1]

EndSineNoBackfill(s) == [s EXCEPT !.currentSineId = NULL]

EndSine(s) ==
  [s EXCEPT
     !.ampBuffer     = Store(s.ampBuffer, s.ampCountIdx, s.currentAmpCount),
     !.freqBuffer    = Store(s.freqBuffer, s.freqCountIdx, s.currentFreqCount),
     !.currentSineId = NULL]

\* subarray(0, offset): the end is clamped to the array's length.
GetAmplitudeBuffer(s) == SubSeq(s.ampBuffer, 1, Min(s.ampOffset, Len(s.ampBuffer)))
GetFrequencyBuffer(s) == SubSeq(s.freqBuffer, 1, Min(s.freqOffset, Len(s.freqBuffer)))

HasAmplitudeEvents(s) == s.ampOffset > 0
HasFrequencyEvents(s) == s.freqOffset > 0

\* ----------------------------------------------------- EventTimestampTracker
NewTracker(eventInterval) == [lastSample |-> NULL, interval |-> eventInterval]

\* (lastSample === null) ? blockStart : lastSample + interval
TrackerFirst(t, blockStart) ==
  IF IsNull(t.lastSample) THEN blockStart ELSE Val(t.lastSample) + t.interval

\* The object generateSamples(blockStart, targetSample) returns: no code has run yet.
NewGenerator(blockStart, targetSample) ==
  [blockStart |-> blockStart, targetSample |-> targetSample, state |-> "created",
   sample |-> 0, lastGenerated |-> NULL]

\* The loop test at `sample`: yield it (and suspend), or leave the loop, commit the
\* cursor and finish.
GenContinueSkipsOne(t, g, sample, lastGenerated) ==
  IF sample <= g.targetSample
    THEN [gen |-> [g EXCEPT !.state = "suspended", !.sample = sample,
                            !.lastGenerated = lastGenerated],
          trk |-> t, yielded |-> Some(sample)]
    ELSE [gen |-> [g EXCEPT !.state = "done", !.sample = sample,
                            !.lastGenerated = lastGenerated],
          trk |-> IF lastGenerated # t.lastSample
                    THEN [t EXCEPT !.lastSample = Some(sample)] ELSE t,
          yielded |-> NULL]

GenContinue(t, g, sample, lastGenerated) ==
  IF sample <= g.targetSample
    THEN [gen |-> [g EXCEPT !.state = "suspended", !.sample = sample,
                            !.lastGenerated = lastGenerated],
          trk |-> t, yielded |-> Some(sample)]
    ELSE [gen |-> [g EXCEPT !.state = "done", !.sample = sample,
                            !.lastGenerated = lastGenerated],
          trk |-> IF lastGenerated # t.lastSample
                    THEN [t EXCEPT !.lastSample = lastGenerated] ELSE t,
          yielded |-> NULL]

\* One next() on a generator: from the top on the first call, else after the yield.
GenNext(t, g) ==
  IF g.state = "created"
    THEN GenContinue(t, g, TrackerFirst(t, g.blockStart), t.lastSample)
  ELSE IF g.state = "suspended"
    THEN GenContinue(t, g, g.sample + t.interval, Some(g.sample))
  ELSE [gen |-> g, trk |-> t, yielded |-> NULL]

\* getSamples(): the generator spread into an array in one go.
RECURSIVE SamplesLoop(_, _, _, _)
SamplesLoop(sample, targetSample, interval, out) ==
  IF sample <= targetSample
    THEN SamplesLoop(sample + interval, targetSample, interval, Append(out, sample))
    ELSE out

GetSamples(t, blockStart, targetSample) ==
  SamplesLoop(TrackerFirst(t, blockStart), targetSample, t.interval, <<>>)

CountEventsNoPlusOne(t, blockStart, targetSample) ==
  LET startSample == TrackerFirst(t, blockStart)
  IN IF startSample > targetSample THEN 0
     ELSE (targetSample - startSample) \div t.interval

CountEvents(t, blockStart, targetSample) ==
  LET startSample == TrackerFirst(t, blockStart)
  IN IF startSample > targetSample THEN 0
     ELSE ((targetSample - startSample) \div t.interval) + 1

TrackerResetToZero(t) == [t EXCEPT !.lastSample = Some(0)]

TrackerReset(t) == [t EXCEPT !.lastSample = NULL]

\* ------------------------------------------------------- PhaseAccumulator
\* Numbers of the accumulator (JS doubles) are pairs <<c, f>> standing for
\* c/16 + f * 2^-55: c counts sixteenths, f counts units of 2^-55. Every such value
\* with small f is a double when rounded to the spacing of its binade, so sums are
\* computed as the double addition computes them; products and quotients of the
\* inputs used here are exact.
Abs(x) == IF x < 0 THEN 0 - x ELSE x

\* Sixteenths below the magnitude of <<c, f>>: fixes the binade of the value.
Mag16(x) ==
  IF x[1] = 0 THEN 0
  ELSE IF (x[1] > 0 /\ x[2] < 0) \/ (x[1] < 0 /\ x[2] > 0) THEN Abs(x[1]) - 1
  ELSE Abs(x[1])

\* Spacing of doubles, in units of 2^-55: 2^-55 in [1/8, 1/4), doubling per binade.
Quantum64(mag16) ==
  IF mag16 < 4 THEN 1
  ELSE IF mag16 < 8 THEN 2
  ELSE IF mag16 < 16 THEN 4
  ELSE IF mag16 < 32 THEN 8
  ELSE 16

\* Round f to the nearest multiple of q, ties to the even multiple.
RoundToQuantum(f, q) ==
  LET a  == Abs(f)
      m  == a \div q
      r  == a - m * q
      up == IF 2 * r > q \/ (2 * r = q /\ m % 2 = 1) THEN (m + 1) * q ELSE m * q
  IN IF f < 0 THEN 0 - up ELSE up

\* The double nearest to <<c, f>>.
Fround64(x) == <<x[1], RoundToQuantum(x[2], Quantum64(Mag16(x)))>>

ExactSum(x, y) == <<x[1] + y[1], x[2] + y[2]>>

\* x + y in double arithmetic.
NumAdd(x, y) == Fround64(ExactSum(x, y))

\* x % 1.0: the remainder has the sign of x (truncated division), and is exact.
JsRem1(x) ==
  LET c == Abs(x[1])
      opposite == (x[1] > 0 /\ x[2] < 0) \/ (x[1] < 0 /\ x[2] > 0)
      whole == IF opposite /\ c % 16 = 0 /\ c > 0 THEN (c \div 16) - 1 ELSE c \div 16
  IN IF x[1] >= 0 THEN <<x[1] - 16 * whole, x[2]>> ELSE <<x[1] + 16 * whole, x[2]>>

\* (delta / sampleRate) * rate, for delta a multiple of sampleRate / 16 and a rate
\* of rate.hz Hz plus rate.tiny * 2^-51 Hz.
PhaseIncrement(delta, sampleRate, rate) ==
  LET d16 == (delta * 16) \div sampleRate
  IN <<d16 * rate.hz, d16 * rate.tiny>>

\* constructor(rate)
NewPhaseAccumulator(rate) == [phase |-> <<0, 0>>, rate |-> rate, lastSample |-> 0]

SetRate(a, rate) == [a EXCEPT !.rate = rate]

AdvanceKeepsLastSample(a, currentSample, sampleRate) ==
  LET delta == currentSample - a.lastSample
  IN [a EXCEPT !.phase = IF delta > 0
                           THEN JsRem1(NumAdd(a.phase,
                                              PhaseIncrement(delta, sampleRate, a.rate)))
                           ELSE a.phase]

\* advance(currentSample, sampleRate): the accumulator after the call.
Advance(a, currentSample, sampleRate) ==
  LET delta == currentSample - a.lastSample
  IN [a EXCEPT !.phase = IF delta > 0
                           THEN JsRem1(NumAdd(a.phase,
                                              PhaseIncrement(delta, sampleRate, a.rate)))
                           ELSE a.phase,
               !.lastSample = currentSample]

\* Whether the addition inside advance had to round.
AdvanceRounds(a, currentSample, sampleRate) ==
  LET delta == currentSample - a.lastSample
      inc == PhaseIncrement(delta, sampleRate, a.rate)
  IN delta > 0 /\ NumAdd(a.phase, inc) # ExactSum(a.phase, inc)

\* futurePhase of sinAt; the value returned is Math.sin(2 * Math.PI * futurePhase).
FuturePhase(a, sampleOffset, sampleRate, phaseOffset) ==
  JsRem1(NumAdd(NumAdd(a.phase, PhaseIncrement(sampleOffset, sampleRate, a.rate)),
                phaseOffset))

SinAtStoresPhase(a, sampleOffset, sampleRate, phaseOffset) ==
  [acc |-> [a EXCEPT !.phase = FuturePhase(a, sampleOffset, sampleRate, phaseOffset)],
   sinOf |-> FuturePhase(a, sampleOffset, sampleRate, phaseOffset)]

\* sinAt(sampleOffset, sampleRate, phaseOffset): the accumulator after the call and
\* the phase whose sine is returned.
SinAt(a, sampleOffset, sampleRate, phaseOffset) ==
  [acc |-> a,
   sinOf |-> FuturePhase(a, sampleOffset, sampleRate, phaseOffset)]

GetPhase(a) == a.phase

ResetPhase(a, phase) == [a EXCEPT !.phase = JsRem1(phase)]

\* ------------------------------------------------ falling-harmonics modulator
\* The falling fields after construction: disabled, migrator at 31, nothing landed.
NewFalling == [enabled |-> FALSE, pos |-> FALLING_START, landed |-> {}]

\* 'set-falling-enabled': enabling (again) restarts the migrator and empties the set.
SetFallingEnabled(f, v) ==
  IF v THEN [enabled |-> TRUE, pos |-> FALLING_START, landed |-> {}]
       ELSE [f EXCEPT !.enabled = FALSE]

\* First statement of updateFallingHarmonics: the random step down.
FallingStepTwo(f, step) == IF f.pos > 0 /\ step THEN [f EXCEPT !.pos = f.pos - 2] ELSE f

FallingStep(f, step) == IF f.pos > 0 /\ step THEN [f EXCEPT !.pos = f.pos - 1] ELSE f

FallingLandKeepsMigrator(f) ==
  IF f.pos = 0
    THEN [f EXCEPT !.landed = f.landed \cup {Cardinality(f.landed)}]
    ELSE f

\* Second statement: a migrator at 0 lands as index landed.size, a new one starts.
FallingLand(f) ==
  IF f.pos = 0
    THEN [f EXCEPT !.landed = f.landed \cup {Cardinality(f.landed)},
                   !.pos = FALLING_START]
    ELSE f

FallingResetNever(f) == f

\* Third statement: all landed, start over.
FallingReset(f) ==
  IF Cardinality(f.landed) >= FALLING_COUNT
    THEN [f EXCEPT !.pos = FALLING_START, !.landed = {}]
    ELSE f

\* updateFallingHarmonics(), step telling whether Math.random() < fallingProbability.
UpdateFallingHarmonics(f, step) ==
  IF ~f.enabled THEN f ELSE FallingReset(FallingLand(FallingStep(f, step)))

\* evaluateFalling(partialIndex)
EvaluateFallingGatesWhenDisabled(f, partialIndex) ==
  IF partialIndex \in f.landed \/ f.pos = partialIndex THEN 1 ELSE 0

EvaluateFalling(f, partialIndex) ==
  IF ~f.enabled THEN 1
  ELSE IF partialIndex \in f.landed \/ f.pos = partialIndex THEN 1
  ELSE 0

\* --------------------------------------------- amplitude of one partial
\* A JS number in an amplitude computation: NaN, or a finite value v (amplitudes
\* after the division by 16 are kept in units of 1/16, so the division leaves v).
NaN == [nan |-> TRUE, v |-> 0]
Finite(v) == [nan |-> FALSE, v |-> v]

\* a * b: NaN if either is NaN.
FMul(a, b) == IF a.nan \/ b.nan THEN NaN ELSE Finite(a.v * b.v)

\* 1 + normalizedHarmonic * asymmetry with normalizedHarmonic = partialNum / 32, in
\* units of 1/3200 (asymmetry in hundredths); exact in doubles when it is 0.
FoldFactor(partialNum, asymmetry) == 3200 + partialNum * asymmetry

\* evaluateWavefolder(partialNum). foldAmount = fold * (1 + ...) is 0 exactly when
\* the factor is 0 (fold is never 0: Number(v) || 2.5); then partialNum / foldAmount
\* is Infinity and Math.cos(Infinity), Math.sin(Infinity) are NaN. Otherwise the
\* value is finite; w stands for it.
EvaluateWavefolder(enabled, asymmetry, partialNum, w) ==
  IF ~enabled THEN Finite(1)
  ELSE IF FoldFactor(partialNum, asymmetry) = 0 THEN NaN
  ELSE Finite(w)

\* -------------------------------------------------------- harmonic comb
\* Math.cos of k eighths of a turn, as <<a, b>> for a/2 + b * sqrt(2)/2. The double
\* result is within rounding of it.
CosEighths(k) ==
  LET j == k % 8
  IN  IF j = 0 THEN <<2, 0>>
      ELSE IF j \in {1, 7} THEN <<0, 1>>
      ELSE IF j \in {2, 6} THEN <<0, 0>>
      ELSE IF j \in {3, 5} THEN <<0, 0 - 1>>
      ELSE <<0 - 2, 0>>

EvaluateCombFullTurn(enabled, spacing, partialNum) ==
  IF ~enabled THEN <<4, 0>>
  ELSE LET c == CosEighths(partialNum * (8 \div spacing))
       IN  <<2 + c[1], c[2]>>

\* evaluateComb(partialNum) with combPhase 0 and a spacing that divides 4, so that
\* partialNum * Math.PI / spacing is a whole number of eighths of a turn; the value
\* 0.5 + 0.5 * cos is <<a, b>> for a/4 + b * sqrt(2)/4.
EvaluateComb(enabled, spacing, partialNum) ==
  IF ~enabled THEN <<4, 0>>
  ELSE LET c == CosEighths(partialNum * (4 \div spacing))
       IN  <<2 + c[1], c[2]>>

\* ------------------------------------------------------------------- state
VARIABLES
  \* AdditiveSynthProcessor fields
  ready, started, sineIds, baseFreq,
  keyboardPitchEnabled, keyboardPitchRatio, prevKeyboardPitchRatio,
  keyboardGateEnabled, keyboardGateOpen, prevKeyboardGateOpen,
  needsImmediateEvent, scheduler,
  lastAmpEventSample, lastFreqEventSample,
  vizUpdateCounter,
  \* position inside process(): idle between blocks, else the next step to run
  pc, currentSample,
  \* renderer (external): sample counter and the events staged per sine
  samplePos, stagedAmp, stagedFreq,
  \* observation: blocks run, snapshots posted, what the blocks emitted
  blocks, vizPosted, overrideBlock, overrides,
  ampLog, freqLog, blockStartAmp, blockStartFreq,
  blockGateOpen, blockPitchRatio,
  \* observation: the last start, parameter or unregistered message handled since
  \* the last block (keyboard edges show in needsImmediateEvent), messages posted
  \* to the port, add_sines calls, renderer calls of the current block, what the
  \* last process() call left in the output block and returned
  lastMsg, posted, addSinesLog, blockCalls, lastOutput, lastReturn,
  \* renderer failures: steps that failed in this and in the previous block, the
  \* timestamps of dropped batches, whether a failed render left the position behind
  blockFaults, prevFaults, droppedAmp, droppedFreq, posStalled, faults,
  \* a standalone EventTimestampTracker, its generator objects, and what they did
  trk, gens, genObs, trkLastYield, trkEpoch, trkStarts, lastCount, trkCalls,
  \* the tracker as it was before reset(), while no generator has run since
  trkBeforeReset,
  \* calls made on a standalone SineEventScheduler
  apiSections, apiLast, apiCalls,
  \* a standalone PhaseAccumulator; observation: the same accumulator without the
  \* sinAt calls, the sinAt calls since the last mutation, the accumulator as the
  \* last constructor/setRate/resetPhase call left it, whether the positions went
  \* forward since then and since construction, whether an addition rounded since
  \* then, advances since then, whether one repeated a position, calls made
  acc, accShadow, sinCalls, accAnchor, accMonotone, accForward, accInexact,
  accSteps, accRepeat, accCalls,
  \* the falling-harmonics fields of a processor followed on their own, the number
  \* of 'set-falling-enabled' messages handled, and what the last call did to them
  falling, fallingMsgs, fallingLast,
  \* the wavefolder fields of the processor (asymmetry in hundredths), and the
  \* amplitudes last computed for one partial, from the fields as they then were,
  \* since a modulator setting of this section last changed
  wavefolderEnabled, wavefolderAsymmetry, ampEval,
  \* the enable flags lfoEnabled, randomEnabled, ... of the other modulators
  modEnabled,
  \* combSpacing, and the comb value last computed for one harmonic since a
  \* modulator setting last changed
  combSpacing, combEval,
  \* ToneProcessor fields: ready, commandQueue (each command with the number of
  \* its arrival) and voiceId
  toneReady, commandQueue, voiceId,
  \* the start_voice and stop_voice calls made, the arrival numbers of the commands
  \* the loop of process() has visited, the messages received, the process() calls
  \* made, and what ran last
  voiceCalls, toneHandled, toneArrived, toneBlocks, toneLast

procVars == <<ready, started, sineIds, baseFreq>>
kbdVars  == <<keyboardPitchEnabled, keyboardPitchRatio, prevKeyboardPitchRatio,
              keyboardGateEnabled, keyboardGateOpen, prevKeyboardGateOpen,
              needsImmediateEvent>>
cursorVars == <<lastAmpEventSample, lastFreqEventSample>>
rendererVars == <<samplePos, stagedAmp, stagedFreq>>
obsVars == <<blocks, vizPosted, overrideBlock, overrides, ampLog, freqLog,
             blockStartAmp, blockStartFreq, blockGateOpen, blockPitchRatio>>
ioVars == <<lastMsg, posted, addSinesLog, blockCalls, lastOutput, lastReturn>>
faultVars == <<blockFaults, prevFaults, droppedAmp, droppedFreq, posStalled, faults>>
loopVars == <<procVars, kbdVars, scheduler, cursorVars, vizUpdateCounter,
              pc, currentSample, rendererVars, obsVars, ioVars, faultVars>>

trkVars == <<trk, gens, genObs, trkLastYield, trkEpoch, trkStarts, lastCount,
            trkCalls, trkBeforeReset>>
apiVars == <<apiSections, apiLast, apiCalls>>
accVars == <<acc, accShadow, sinCalls, accAnchor, accMonotone, accForward,
            accInexact, accSteps, accRepeat, accCalls>>
fallingVars == <<falling, fallingMsgs, fallingLast>>
ampVars == <<wavefolderEnabled, wavefolderAsymmetry, ampEval, modEnabled,
            combSpacing, combEval>>

\* A message changed a field the amplitudes depend on: those computed before it are
\* no longer the ones on record.
AmplitudeSettingChanged ==
  /\ ampEval' = NULL
  /\ combEval' = NULL
  /\ UNCHANGED <<wavefolderEnabled, wavefolderAsymmetry, modEnabled, combSpacing>>
toneVars == <<toneReady, commandQueue, voiceId, voiceCalls, toneHandled,
             toneArrived, toneBlocks, toneLast>>
extVars == <<accVars, fallingVars, ampVars, toneVars>>
libVars == <<trkVars, apiVars, extVars>>

vars == <<loopVars, trkVars, apiVars, extVars>>

Partials == 1..NUM_PARTIALS
SineIdRange == 0..(NUM_PARTIALS - 1)
PitchRatioPayloads == {0, 1, 2}
BaseFreqPayloads == {0, 220}
OtherTags == {"", "set-unknown", "toString", "__proto__"}

\* Inputs of the standalone tracker and scheduler.
Intervals == {128, 200}
BlockStarts == {0, 301}
Targets == {300, 600}
SchedulerSizes == {<<1, 1>>, <<2, 2>>}
BeginSineArgs == {<<5, FALSE>>, <<7, TRUE>>}
AmpEventArgs == {<<100, 1>>, <<228, 33554435>>}
FreqEventArgs == {<<100, 440>>}

\* Inputs of the standalone accumulator: rates of -1, 1 and 3 Hz and of 2^-51 Hz,
\* a sample rate of 2^15 Hz, positions a sixteenth of a second apart.
AccSampleRate == 32768
AccRates == {[hz |-> 0 - 1, tiny |-> 0], [hz |-> 1, tiny |-> 0],
             [hz |-> 3, tiny |-> 0], [hz |-> 0, tiny |-> 1]}
AccPositions == {k * (AccSampleRate \div 16) : k \in 0..MaxPosIndex}
ResetPhaseArgs == {<<0, 0>>, <<8, 0>>, <<0 - 4, 0>>, <<20, 0>>}
SinAtArgs == {<<0, <<0, 0>>>>, <<AccSampleRate \div 16, <<8, 0>>>>}

\* Inputs of the amplitude computation: 'set-wavefolder-asymmetry' payloads in
\* hundredths (the control's range is -1..1), the partial indices followed (first
\* and last of the 32), and stand-ins for a finite wavefolder value.
AsymmetryPayloads == {0 - 100, 0, 50}
EvalPartials == {0, FALLING_START}
WavefolderSamples == {0 - 1, 0, 1}

\* The modulators whose enabled value is not computed here, in the order of the
\* product, and stand-ins for the value of an enabled one.
ContinuousMods == <<"lfo", "random", "lowpass", "highpass", "comb", "pwm", "barberPole", "vowel">>
ModNames == {ContinuousMods[k] : k \in 1..Len(ContinuousMods)}
ModSamples == {0, 2}

\* 'set-comb-spacing' payloads and the harmonics whose comb value is computed.
CombSpacingPayloads == {0, 1, 2, 4}
Harmonics == 1..(FALLING_START + 1)

\* ------------------------------------------------ renderer (wasm interface)
\* add_sines(phases): one id per phase.
AddSines(n) == [k \in 1..n |-> k - 1]

\* The k events of a section, read from position p of a buffer.
RECURSIVE ReadEvents(_, _, _)
ReadEvents(buf, p, k) ==
  IF k <= 0 \/ p + 1 > Len(buf) THEN <<>>
  ELSE <<[sample |-> buf[p], value |-> buf[p + 1]]>> \o ReadEvents(buf, p + 2, k - 1)

\* Decoding of [sine_id, event_count, override_flag, (sample, value) x count]...
RECURSIVE ParseFrom(_, _)
ParseFrom(buf, p) ==
  IF p + 2 > Len(buf) THEN <<>>
  ELSE <<[id       |-> buf[p],
          count    |-> buf[p + 1],
          override |-> buf[p + 2] = 1,
          events   |-> ReadEvents(buf, p + 3, buf[p + 1])]>>
       \o ParseFrom(buf, p + 3 + 2 * (IF buf[p + 1] > 0 THEN buf[p + 1] ELSE 0))

ParseSections(buf) == ParseFrom(buf, 1)

SampleSet(events) == {events[k].sample : k \in 1..Len(events)}

\* Normal mode: events must be in chronological order after the staged ones.
SectionInOrder(stagedSet, events) ==
  /\ \A t \in stagedSet : events[1].sample > t
  /\ \A k \in 1..(Len(events) - 1) : events[k].sample < events[k + 1].sample

\* add_amplitude_events / add_frequency_events on the staged events of one stream.
\* Override mode clears the staged events at or after the first new event's sample.
RECURSIVE ApplySections(_, _, _)
ApplySections(staged, secs, k) ==
  IF k > Len(secs) THEN [staged |-> staged, ok |-> TRUE]
  ELSE LET sec == secs[k] IN
    IF sec.events = <<>> \/ sec.id \notin DOMAIN staged
      THEN ApplySections(staged, secs, k + 1)
    ELSE IF sec.override
      THEN ApplySections(
             [staged EXCEPT ![sec.id] =
                {t \in @ : t < sec.events[1].sample} \cup SampleSet(sec.events)],
             secs, k + 1)
    ELSE IF SectionInOrder(staged[sec.id], sec.events)
      THEN ApplySections([staged EXCEPT ![sec.id] = @ \cup SampleSet(sec.events)],
                         secs, k + 1)
    ELSE [staged |-> staged, ok |-> FALSE]

AddEvents(staged, buf) == ApplySections(staged, ParseSections(buf), 1)

\* render(buffer): one block is produced and the events due in it are consumed.
RenderConsume(staged, newPos) == [id \in DOMAIN staged |-> {t \in staged[id] : t >= newPos}]

\* ------------------------------------------------------- modulator values
\* Product of the non-keyboard amplitude modulators for partial index i.
BaseAmplitude(i) == 1

EvaluateKeyboardGate == IF ~keyboardGateEnabled THEN 1 ELSE IF keyboardGateOpen THEN 1 ELSE 0
EvaluateKeyboardPitchIgnoresEnable == keyboardPitchRatio
EvaluateKeyboardPitch == IF ~keyboardPitchEnabled THEN 1 ELSE keyboardPitchRatio
PrevGateValue == IF keyboardGateEnabled THEN (IF prevKeyboardGateOpen THEN 1 ELSE 0) ELSE 1
PrevPitchMod == IF keyboardPitchEnabled THEN prevKeyboardPitchRatio ELSE 1

\* ------------------------------------------------------------ control loop
TargetSampleNoLookahead(cur) == cur + BLOCK_SIZE
TargetSample(cur) == (cur + BLOCK_SIZE) + EVENT_INTERVAL

RampSampleLate(cur) == cur + EVENT_INTERVAL
RampSample(cur) == cur + KEYBOARD_RAMP_SAMPLES

FirstSampleRepeat(last, cur) == IF IsNull(last) THEN cur ELSE Val(last)
FirstSample(last, cur) == IF IsNull(last) THEN cur ELSE Val(last) + EVENT_INTERVAL

InjectCursorReset(cur) == NULL
InjectCursor(cur) == Some(RampSample(cur))

PcAfterInjectElse == "sendAmp"
PcAfterInject == "schedule"

\* The override section of partial index i (0-based): point A, then point B.
InjectPartial(s, i, cur) ==
  LET partialNum == i + 1
      s1 == BeginSine(s, sineIds[i + 1], TRUE)
      s2 == AddAmplitudeEvent(s1, cur, BaseAmplitude(i) * PrevGateValue)
      s3 == AddAmplitudeEvent(s2, RampSample(cur), BaseAmplitude(i) * EvaluateKeyboardGate)
      s4 == AddFrequencyEvent(s3, cur, baseFreq * PrevPitchMod * partialNum)
      s5 == AddFrequencyEvent(s4, RampSample(cur), baseFreq * EvaluateKeyboardPitch * partialNum)
  IN EndSine(s5)

RECURSIVE InjectAll(_, _, _)
InjectAll(s, i, cur) ==
  IF i >= NUM_PARTIALS THEN s ELSE InjectAll(InjectPartial(s, i, cur), i + 1, cur)

RECURSIVE AmpLoop(_, _, _, _, _)
AmpLoop(s, i, sample, target, lastGenerated) ==
  IF sample <= target
    THEN AmpLoop(AddAmplitudeEvent(s, sample, BaseAmplitude(i) * EvaluateKeyboardGate),
                 i, sample + EVENT_INTERVAL, target, Some(sample))
    ELSE [sch |-> s, last |-> lastGenerated]

RECURSIVE FreqLoop(_, _, _, _, _)
FreqLoop(s, i, sample, target, lastGenerated) ==
  IF sample <= target
    THEN FreqLoop(AddFrequencyEvent(s, sample, baseFreq * EvaluateKeyboardPitch * (i + 1)),
                  i, sample + EVENT_INTERVAL, target, Some(sample))
    ELSE [sch |-> s, last |-> lastGenerated]

\* One iteration of the scheduling loop, for partial index i (0-based).
SchedulePartial(r, i, cur) ==
  LET s1 == BeginSine(r.sch, sineIds[i + 1], FALSE)
      a  == AmpLoop(s1, i, FirstSample(r.lastAmp[i + 1], cur), TargetSample(cur),
                    r.lastAmp[i + 1])
      f  == FreqLoop(a.sch, i, FirstSample(r.lastFreq[i + 1], cur), TargetSample(cur),
                     r.lastFreq[i + 1])
  IN [sch      |-> EndSine(f.sch),
      lastAmp  |-> [r.lastAmp EXCEPT ![i + 1] = a.last],
      lastFreq |-> [r.lastFreq EXCEPT ![i + 1] = f.last]]

RECURSIVE ScheduleAll(_, _, _)
ScheduleAll(r, i, cur) ==
  IF i >= NUM_PARTIALS THEN r ELSE ScheduleAll(SchedulePartial(r, i, cur), i + 1, cur)

\* Timestamps of the non-override sections of a buffer for one sine id, in order.
RECURSIVE NormalSamples(_, _, _)
NormalSamples(secs, k, id) ==
  IF k > Len(secs) THEN <<>>
  ELSE (IF secs[k].id = id /\ ~secs[k].override
          THEN [j \in 1..Len(secs[k].events) |-> secs[k].events[j].sample]
          ELSE <<>>)
       \o NormalSamples(secs, k + 1, id)

\* ------------------------------------------------------------------ Init
InitProc ==
  /\ started = FALSE
  /\ sineIds = <<>>
  /\ baseFreq = DEFAULT_BASE_FREQ
  /\ keyboardPitchEnabled = FALSE
  /\ keyboardPitchRatio = 1
  /\ prevKeyboardPitchRatio = 1
  /\ keyboardGateEnabled = FALSE
  /\ keyboardGateOpen = TRUE
  /\ prevKeyboardGateOpen = TRUE
  /\ needsImmediateEvent = FALSE
  /\ lastAmpEventSample = <<>>
  /\ lastFreqEventSample = <<>>
  /\ vizUpdateCounter = 0
  /\ pc = "idle"
  /\ currentSample = 0
  /\ samplePos = 0
  /\ stagedAmp = [id \in SineIdRange |-> {}]
  /\ stagedFreq = [id \in SineIdRange |-> {}]
  /\ blocks = 0
  /\ vizPosted = 0
  /\ overrideBlock = FALSE
  /\ overrides = 0
  /\ ampLog = [i \in Partials |-> <<>>]
  /\ freqLog = [i \in Partials |-> <<>>]
  /\ blockStartAmp = <<>>
  /\ blockStartFreq = <<>>
  /\ blockGateOpen = TRUE
  /\ blockPitchRatio = 1
  /\ lastMsg = NULL
  /\ posted = <<IF ready THEN "ready" ELSE "error">>
  /\ addSinesLog = <<>>
  /\ blockCalls = <<>>
  /\ lastOutput = "none"
  /\ lastReturn = NULL
  /\ blockFaults = {}
  /\ prevFaults = {}
  /\ droppedAmp = [i \in Partials |-> {}]
  /\ droppedFreq = [i \in Partials |-> {}]
  /\ posStalled = FALSE
  /\ faults = 0

InitTrkIdle ==
  /\ gens = <<>>
  /\ genObs = <<>>
  /\ trkLastYield = NULL
  /\ trkEpoch = 0
  /\ trkStarts = 0
  /\ lastCount = NULL
  /\ trkCalls = 0
  /\ trkBeforeReset = NULL

InitApiIdle ==
  /\ apiSections = <<>>
  /\ apiLast = NULL
  /\ apiCalls = 0

InitAccObs ==
  /\ accShadow = acc
  /\ sinCalls = <<>>
  /\ accAnchor = acc
  /\ accMonotone = TRUE
  /\ accForward = TRUE
  /\ accInexact = FALSE
  /\ accSteps = 0
  /\ accRepeat = FALSE
  /\ accCalls = 0

\* this.lfo = new PhaseAccumulator(1.0)
InitAcc ==
  /\ acc = NewPhaseAccumulator([hz |-> 1, tiny |-> 0])
  /\ InitAccObs

\* A ToneProcessor the constructor has set up, before any message or block.
InitToneFields ==
  /\ commandQueue = <<>>
  /\ voiceId = NULL
  /\ voiceCalls = <<>>
  /\ toneHandled = <<>>
  /\ toneArrived = 0
  /\ toneBlocks = 0
  /\ toneLast = "none"

InitTone ==
  /\ toneReady = TRUE
  /\ InitToneFields

InitFalling ==
  /\ falling = NewFalling
  /\ fallingMsgs = 0
  /\ fallingLast = "none"
  /\ wavefolderEnabled = FALSE
  /\ wavefolderAsymmetry = 0
  /\ ampEval = NULL
  /\ modEnabled = [m \in ModNames |-> m \in {"lfo", "random"}]
  /\ combSpacing = 4
  /\ combEval = NULL

Init ==
  /\ ready \in BOOLEAN
  /\ InitProc
  /\ scheduler = NewScheduler(NUM_PARTIALS, MAX_EVENTS_PER_SINE)
  /\ trk = NewTracker(DEFAULT_TRACKER_INTERVAL)
  /\ InitTrkIdle
  /\ InitApiIdle
  /\ InitAcc
  /\ InitFalling
  /\ InitTone

\* A tracker constructed with some interval; the processor is not involved.
TrackerInit ==
  /\ ready = FALSE
  /\ InitProc
  /\ scheduler = NewScheduler(NUM_PARTIALS, MAX_EVENTS_PER_SINE)
  /\ \E i \in Intervals : trk = NewTracker(i)
  /\ InitTrkIdle
  /\ InitApiIdle
  /\ InitAcc
  /\ InitFalling
  /\ InitTone

\* A scheduler constructed with some (maxSines, maxEventsPerSine).
SchedulerInit ==
  /\ ready = FALSE
  /\ InitProc
  /\ \E sz \in SchedulerSizes : scheduler = NewScheduler(sz[1], sz[2])
  /\ trk = NewTracker(DEFAULT_TRACKER_INTERVAL)
  /\ InitTrkIdle
  /\ InitApiIdle
  /\ InitAcc
  /\ InitFalling
  /\ InitTone

\* The batches process() is about to hand to the renderer.
AmpBatch == ParseSections(GetAmplitudeBuffer(scheduler))
FreqBatch == ParseSections(GetFrequencyBuffer(scheduler))

\* ------------------------------------------------------- message handlers
\* Tags with a handler in the dispatch map that the model follows.
RegisteredTags ==
  {"start", "set-base-freq", "set-keyboard-pitch-enabled", "set-keyboard-pitch-ratio",
   "set-keyboard-gate-enabled", "set-keyboard-gate"}

\* Properties every plain object inherits from Object.prototype: functions, and
\* __proto__, which is the prototype object itself.
InheritedFunctionTags == {"toString", "constructor", "hasOwnProperty", "valueOf"}
PrototypeTag == "__proto__"

\* this.messageHandlers[msg.type]: what the lookup on the dispatch map finds.
HandlerLookup(tag) ==
  IF tag \in RegisteredTags THEN "handler"
  ELSE IF tag \in InheritedFunctionTags THEN "inherited function"
  ELSE IF tag = PrototypeTag THEN "object"
  ELSE "undefined"

\* msg && msg.type && this.messageHandlers[msg.type]
Dispatched(kind, tag) ==
  kind = "typed" /\ tag # "" /\ HandlerLookup(tag) # "undefined"

\* Calling what the lookup found: only a function can be called.
DispatchThrows(kind, tag) ==
  Dispatched(kind, tag) /\ HandlerLookup(tag) = "object"

Handled(tag, v) == Some([kind |-> "typed", type |-> tag, value |-> v, threw |-> FALSE])

\* Number(v) || fallback, for a numeric payload v.
NumberOr(v, fallback) == IF v = 0 THEN fallback ELSE v

CanStartNotReady == ~started
CanStartAgain == ready
\* if (!this.started && this.ready)
CanStart == ~started /\ ready

\* 'start': startSynth() once, when ready.
MsgStart ==
  /\ UNCHANGED libVars
  /\ pc = "idle"
  /\ IF CanStart
       THEN /\ sineIds' = AddSines(NUM_PARTIALS)
            /\ addSinesLog' = Append(addSinesLog, NUM_PARTIALS)
            /\ lastAmpEventSample' = [i \in Partials |-> NULL]
            /\ lastFreqEventSample' = [i \in Partials |-> NULL]
            /\ started' = TRUE
            /\ posted' = Append(posted, "started")
       ELSE UNCHANGED <<sineIds, addSinesLog, cursorVars, started, posted>>
  /\ lastMsg' = Handled("start", 0)
  /\ UNCHANGED <<ready, baseFreq, kbdVars, scheduler, vizUpdateCounter, pc,
                 currentSample, rendererVars, obsVars, blockCalls, lastOutput,
                 lastReturn, faultVars>>

MsgSetBaseFreq ==
  /\ UNCHANGED libVars
  /\ pc = "idle"
  /\ \E v \in BaseFreqPayloads :
       /\ baseFreq' = NumberOr(v, DEFAULT_BASE_FREQ)
       /\ lastMsg' = Handled("set-base-freq", v)
  /\ UNCHANGED <<ready, started, sineIds, kbdVars, scheduler, cursorVars,
                 vizUpdateCounter, pc, currentSample, rendererVars, obsVars,
                 posted, addSinesLog, blockCalls, lastOutput, lastReturn, faultVars>>

\* The keyboard fields of the processor as one value.
KeyboardState ==
  [keyboardPitchEnabled   |-> keyboardPitchEnabled,
   keyboardPitchRatio     |-> keyboardPitchRatio,
   prevKeyboardPitchRatio |-> prevKeyboardPitchRatio,
   keyboardGateEnabled    |-> keyboardGateEnabled,
   keyboardGateOpen       |-> keyboardGateOpen,
   prevKeyboardGateOpen   |-> prevKeyboardGateOpen,
   needsImmediateEvent    |-> needsImmediateEvent]

\* 'set-keyboard-pitch-ratio': remember the current ratio, store Number(v) || 1.0.
SetKeyboardPitchRatio(k, v) ==
  [k EXCEPT !.prevKeyboardPitchRatio = k.keyboardPitchRatio,
            !.keyboardPitchRatio = NumberOr(v, 1),
            !.needsImmediateEvent = TRUE]

SetKeyboardGateNotPending(k, v) ==
  [k EXCEPT !.prevKeyboardGateOpen = k.keyboardGateOpen,
            !.keyboardGateOpen = v]

\* 'set-keyboard-gate': remember the current gate, store Boolean(v).
SetKeyboardGate(k, v) ==
  [k EXCEPT !.prevKeyboardGateOpen = k.keyboardGateOpen,
            !.keyboardGateOpen = v,
            !.needsImmediateEvent = TRUE]

MsgSetKeyboardPitchEnabled ==
  /\ UNCHANGED libVars
  /\ pc = "idle"
  /\ \E v \in BOOLEAN :
       /\ keyboardPitchEnabled' = v
  /\ UNCHANGED <<procVars, keyboardPitchRatio, prevKeyboardPitchRatio,
                 keyboardGateEnabled, keyboardGateOpen, prevKeyboardGateOpen,
                 needsImmediateEvent, scheduler, cursorVars, vizUpdateCounter, pc,
                 currentSample, rendererVars, obsVars,
                 lastMsg, posted, addSinesLog, blockCalls, lastOutput, lastReturn, faultVars>>

\* Number(v) || 1.0
MsgSetKeyboardPitchRatio ==
  /\ UNCHANGED libVars
  /\ pc = "idle"
  /\ \E v \in PitchRatioPayloads :
       LET k == SetKeyboardPitchRatio(KeyboardState, v)
       IN /\ prevKeyboardPitchRatio' = k.prevKeyboardPitchRatio
          /\ keyboardPitchRatio' = k.keyboardPitchRatio
          /\ needsImmediateEvent' = k.needsImmediateEvent
  /\ UNCHANGED <<procVars, keyboardPitchEnabled,
                 keyboardGateEnabled, keyboardGateOpen, prevKeyboardGateOpen,
                 scheduler, cursorVars, vizUpdateCounter, pc,
                 currentSample, rendererVars, obsVars,
                 lastMsg, posted, addSinesLog, blockCalls, lastOutput, lastReturn, faultVars>>

MsgSetKeyboardGateEnabled ==
  /\ UNCHANGED <<trkVars, apiVars, accVars, fallingVars, toneVars>>
  /\ AmplitudeSettingChanged
  /\ pc = "idle"
  /\ \E v \in BOOLEAN :
       /\ keyboardGateEnabled' = v
  /\ UNCHANGED <<procVars, keyboardPitchEnabled, keyboardPitchRatio,
                 prevKeyboardPitchRatio, keyboardGateOpen, prevKeyboardGateOpen,
                 needsImmediateEvent, scheduler, cursorVars, vizUpdateCounter, pc,
                 currentSample, rendererVars, obsVars,
                 lastMsg, posted, addSinesLog, blockCalls, lastOutput, lastReturn, faultVars>>

MsgSetKeyboardGate ==
  /\ UNCHANGED <<trkVars, apiVars, accVars, fallingVars, toneVars>>
  /\ AmplitudeSettingChanged
  /\ pc = "idle"
  /\ \E v \in BOOLEAN :
       LET k == SetKeyboardGate(KeyboardState, v)
       IN /\ prevKeyboardGateOpen' = k.prevKeyboardGateOpen
          /\ keyboardGateOpen' = k.keyboardGateOpen
          /\ needsImmediateEvent' = k.needsImmediateEvent
  /\ UNCHANGED <<procVars, keyboardPitchEnabled, keyboardPitchRatio,
                 prevKeyboardPitchRatio, keyboardGateEnabled,
                 scheduler, cursorVars, vizUpdateCounter, pc,
                 currentSample, rendererVars, obsVars,
                 lastMsg, posted, addSinesLog, blockCalls, lastOutput, lastReturn, faultVars>>

\* A message that is null, has no type, or whose type has no registered handler.
MsgOther ==
  /\ UNCHANGED libVars
  /\ pc = "idle"
  /\ \E kind \in {"null", "untyped", "typed"} :
       \E tag \in (IF kind = "typed" THEN OtherTags ELSE {""}) :
         lastMsg' = Some([kind |-> kind, type |-> tag, value |-> 0,
                          threw |-> DispatchThrows(kind, tag)])
  /\ UNCHANGED <<procVars, kbdVars, scheduler, cursorVars, vizUpdateCounter, pc,
                 currentSample, rendererVars, obsVars,
                 posted, addSinesLog, blockCalls, lastOutput, lastReturn, faultVars>>

\* ------------------------------------------------------------- process()
\* Not ready: return true. Not started: the output block is zero-filled, return true.
ProcessIdle ==
  /\ UNCHANGED libVars
  /\ pc = "idle"
  /\ ~ready \/ ~started
  /\ lastOutput' = IF ~ready THEN "untouched" ELSE "zero"
  /\ lastReturn' = Some(TRUE)
  /\ UNCHANGED <<procVars, kbdVars, scheduler, cursorVars, vizUpdateCounter, pc,
                 currentSample, rendererVars, obsVars,
                 lastMsg, posted, addSinesLog, blockCalls, faultVars>>

\* Read the sample position, begin the frame.
ProcessBeginUpTo(limit) ==
  /\ UNCHANGED libVars
  /\ pc = "idle"
  /\ ready /\ started
  /\ blocks < limit
  /\ currentSample' = samplePos
  /\ blockCalls' = <<"get_current_sample_position", "lfo.advance", "beginFrame">>
  /\ scheduler' = BeginFrame(scheduler)
  /\ pc' = IF needsImmediateEvent THEN "inject" ELSE "schedule"
  /\ overrideBlock' = FALSE
  /\ blockStartAmp' = lastAmpEventSample
  /\ blockStartFreq' = lastFreqEventSample
  /\ lastMsg' = NULL
  /\ lastOutput' = "none"
  /\ lastReturn' = NULL
  /\ prevFaults' = blockFaults
  /\ blockFaults' = {}
  /\ UNCHANGED <<procVars, kbdVars, cursorVars, vizUpdateCounter, rendererVars,
                 blocks, vizPosted, overrides, ampLog, freqLog,
                 blockGateOpen, blockPitchRatio,
                 posted, addSinesLog,
                 droppedAmp, droppedFreq, posStalled, faults>>

ProcessBegin == ProcessBeginUpTo(MaxBlocks)

\* if (needsImmediateEvent): the override pair of every partial.
ProcessInject ==
  /\ UNCHANGED libVars
  /\ pc = "inject"
  /\ scheduler' = InjectAll(scheduler, 0, currentSample)
  /\ lastAmpEventSample' = [i \in Partials |-> InjectCursor(currentSample)]
  /\ lastFreqEventSample' = [i \in Partials |-> InjectCursor(currentSample)]
  /\ prevKeyboardPitchRatio' = keyboardPitchRatio
  /\ prevKeyboardGateOpen' = keyboardGateOpen
  /\ needsImmediateEvent' = FALSE
  /\ overrideBlock' = TRUE
  /\ overrides' = overrides + 1
  /\ pc' = PcAfterInject
  /\ UNCHANGED <<procVars, keyboardPitchEnabled, keyboardPitchRatio,
                 keyboardGateEnabled, keyboardGateOpen, vizUpdateCounter,
                 currentSample, rendererVars, blocks, vizPosted, ampLog, freqLog,
                 blockStartAmp, blockStartFreq, blockGateOpen, blockPitchRatio,
                 ioVars, faultVars>>

\* The scheduling loop over the partials.
ProcessSchedule ==
  /\ UNCHANGED libVars
  /\ pc = "schedule"
  /\ LET r == ScheduleAll([sch |-> scheduler, lastAmp |-> lastAmpEventSample,
                           lastFreq |-> lastFreqEventSample], 0, currentSample)
         ampSecs == ParseSections(GetAmplitudeBuffer(r.sch))
         freqSecs == ParseSections(GetFrequencyBuffer(r.sch))
     IN /\ scheduler' = r.sch
        /\ lastAmpEventSample' = r.lastAmp
        /\ lastFreqEventSample' = r.lastFreq
        /\ ampLog' = [i \in Partials |-> ampLog[i] \o NormalSamples(ampSecs, 1, sineIds[i])]
        /\ freqLog' = [i \in Partials |-> freqLog[i] \o NormalSamples(freqSecs, 1, sineIds[i])]
  /\ blockGateOpen' = keyboardGateOpen
  /\ blockPitchRatio' = keyboardPitchRatio
  /\ pc' = "sendAmp"
  /\ UNCHANGED <<procVars, kbdVars, vizUpdateCounter, currentSample, rendererVars,
                 blocks, vizPosted, overrideBlock, overrides,
                 blockStartAmp, blockStartFreq, ioVars, faultVars>>

ProcessSendAmp ==
  /\ UNCHANGED libVars
  /\ pc = "sendAmp"
  /\ IF HasAmplitudeEvents(scheduler)
       THEN /\ stagedAmp' = AddEvents(stagedAmp, GetAmplitudeBuffer(scheduler)).staged
            /\ blockCalls' = Append(blockCalls, "add_amplitude_events")
       ELSE UNCHANGED <<stagedAmp, blockCalls>>
  /\ pc' = "sendFreq"
  /\ UNCHANGED <<procVars, kbdVars, scheduler, cursorVars, vizUpdateCounter,
                 currentSample, samplePos, stagedFreq, obsVars,
                 lastMsg, posted, addSinesLog, lastOutput, lastReturn, faultVars>>

ProcessSendFreq ==
  /\ UNCHANGED libVars
  /\ pc = "sendFreq"
  /\ IF HasFrequencyEvents(scheduler)
       THEN /\ stagedFreq' = AddEvents(stagedFreq, GetFrequencyBuffer(scheduler)).staged
            /\ blockCalls' = Append(blockCalls, "add_frequency_events")
       ELSE UNCHANGED <<stagedFreq, blockCalls>>
  /\ pc' = "render"
  /\ UNCHANGED <<procVars, kbdVars, scheduler, cursorVars, vizUpdateCounter,
                 currentSample, samplePos, stagedAmp, obsVars,
                 lastMsg, posted, addSinesLog, lastOutput, lastReturn, faultVars>>

ProcessRender ==
  /\ UNCHANGED libVars
  /\ pc = "render"
  /\ blockCalls' = Append(blockCalls, "render")
  /\ samplePos' = samplePos + BLOCK_SIZE
  /\ stagedAmp' = RenderConsume(stagedAmp, samplePos + BLOCK_SIZE)
  /\ stagedFreq' = RenderConsume(stagedFreq, samplePos + BLOCK_SIZE)
  /\ lastOutput' = "audio"
  /\ pc' = "publish"
  /\ UNCHANGED <<procVars, kbdVars, scheduler, cursorVars, vizUpdateCounter,
                 currentSample, obsVars,
                 lastMsg, posted, addSinesLog, lastReturn, faultVars>>

SnapshotDueLate(counter) == counter > vizUpdateInterval
\* if (this.vizUpdateCounter >= this.vizUpdateInterval)
SnapshotDue(counter) == counter >= vizUpdateInterval

\* Throttled 'modulator-values' snapshot, then return true.
\* The heap objects the telemetry step creates when the counter reaches `counter`:
\* one array per Array.from(...) and the message object, or none without a snapshot.
SnapshotAllocations(counter) ==
  IF SnapshotDue(counter) THEN SNAPSHOT_ARRAYS + 1 ELSE 0

ProcessPublish ==
  /\ UNCHANGED libVars
  /\ pc = "publish"
  /\ IF SnapshotDue(vizUpdateCounter + 1)
       THEN vizUpdateCounter' = 0 /\ vizPosted' = vizPosted + 1
       ELSE vizUpdateCounter' = vizUpdateCounter + 1 /\ vizPosted' = vizPosted
  /\ blocks' = blocks + 1
  /\ lastReturn' = Some(TRUE)
  /\ pc' = "idle"
  /\ UNCHANGED <<procVars, kbdVars, scheduler, cursorVars, currentSample,
                 rendererVars, overrideBlock, overrides, ampLog, freqLog,
                 blockStartAmp, blockStartFreq, blockGateOpen, blockPitchRatio,
                 lastMsg, posted, addSinesLog, blockCalls, lastOutput, faultVars>>

\* ---------------------------------------------- process(), renderer failing
\* All timestamps a batch holds for one sine id, override sections included.
SectionSamples(secs, id) ==
  UNION {SampleSet(secs[k].events) : k \in {j \in 1..Len(secs) : secs[j].id = id}}

OutputLeftAsIs == "untouched"
\* catch (e) { ...; buffer.fill(0); }
OutputAfterRenderFailure == "zero"

\* add_amplitude_events throws: the error is logged, the batch is not staged.
ProcessSendAmpFail ==
  /\ UNCHANGED libVars
  /\ pc = "sendAmp"
  /\ faults < MaxFaults
  /\ faults' = faults + 1
  /\ HasAmplitudeEvents(scheduler)
  /\ blockCalls' = Append(blockCalls, "add_amplitude_events")
  /\ blockFaults' = blockFaults \cup {"add_amplitude_events"}
  /\ droppedAmp' = [i \in Partials |->
                      droppedAmp[i] \cup SectionSamples(AmpBatch, sineIds[i])]
  /\ pc' = "sendFreq"
  /\ UNCHANGED <<procVars, kbdVars, scheduler, cursorVars, vizUpdateCounter,
                 currentSample, rendererVars, obsVars,
                 lastMsg, posted, addSinesLog, lastOutput, lastReturn,
                 prevFaults, droppedFreq, posStalled>>

\* add_frequency_events throws: the error is logged, the batch is not staged.
ProcessSendFreqFail ==
  /\ UNCHANGED libVars
  /\ pc = "sendFreq"
  /\ faults < MaxFaults
  /\ faults' = faults + 1
  /\ HasFrequencyEvents(scheduler)
  /\ blockCalls' = Append(blockCalls, "add_frequency_events")
  /\ blockFaults' = blockFaults \cup {"add_frequency_events"}
  /\ droppedFreq' = [i \in Partials |->
                       droppedFreq[i] \cup SectionSamples(FreqBatch, sineIds[i])]
  /\ pc' = "render"
  /\ UNCHANGED <<procVars, kbdVars, scheduler, cursorVars, vizUpdateCounter,
                 currentSample, rendererVars, obsVars,
                 lastMsg, posted, addSinesLog, lastOutput, lastReturn,
                 prevFaults, droppedAmp, posStalled>>

\* render throws: the error is logged and the block zero-filled. Whether the
\* renderer had advanced its sample position before failing is not known.
ProcessRenderFail ==
  /\ UNCHANGED libVars
  /\ pc = "render"
  /\ faults < MaxFaults
  /\ faults' = faults + 1
  /\ blockCalls' = Append(blockCalls, "render")
  /\ blockFaults' = blockFaults \cup {"render"}
  /\ \E advanced \in BOOLEAN :
       LET newPos == IF advanced THEN samplePos + BLOCK_SIZE ELSE samplePos
       IN /\ samplePos' = newPos
          /\ stagedAmp' = RenderConsume(stagedAmp, newPos)
          /\ stagedFreq' = RenderConsume(stagedFreq, newPos)
          /\ posStalled' = (posStalled \/ ~advanced)
  /\ lastOutput' = OutputAfterRenderFailure
  /\ pc' = "publish"
  /\ UNCHANGED <<procVars, kbdVars, scheduler, cursorVars, vizUpdateCounter,
                 currentSample, obsVars,
                 lastMsg, posted, addSinesLog, lastReturn,
                 prevFaults, droppedAmp, droppedFreq>>

\* One process() callback, step by step, while the renderer works.
ProcessStep ==
  \/ ProcessIdle
  \/ ProcessBegin
  \/ ProcessInject
  \/ ProcessSchedule
  \/ ProcessSendAmp
  \/ ProcessSendFreq
  \/ ProcessRender
  \/ ProcessPublish

\* The control loop under start and keyboard messages.
Next ==
  \/ MsgStart
  \/ MsgSetKeyboardPitchEnabled
  \/ MsgSetKeyboardPitchRatio
  \/ MsgSetKeyboardGateEnabled
  \/ MsgSetKeyboardGate
  \/ ProcessStep

Spec == Init /\ [][Next]_vars

\* The control loop under start, parameter and unregistered messages.
ControlNext ==
  \/ MsgStart
  \/ MsgSetBaseFreq
  \/ MsgSetKeyboardGate
  \/ MsgOther
  \/ ProcessStep

ControlSpec == Init /\ [][ControlNext]_vars

\* The control loop under start and gate messages, with renderer calls that may fail.
FaultNext ==
  \/ MsgStart
  \/ MsgSetKeyboardGate
  \/ ProcessStep
  \/ ProcessSendAmpFail
  \/ ProcessSendFreqFail
  \/ ProcessRenderFail

FaultSpec == Init /\ [][FaultNext]_vars

\* The control loop over many blocks, with renderer calls that may fail and no
\* keyboard message (needsImmediateEvent stays false, so no block injects).
ProcessBeginLong == ProcessBeginUpTo(MaxVizBlocks)

VizNext ==
  \/ MsgStart
  \/ ProcessIdle
  \/ ProcessBeginLong
  \/ ProcessSchedule
  \/ ProcessSendAmp
  \/ ProcessSendFreq
  \/ ProcessRender
  \/ ProcessPublish
  \/ ProcessSendAmpFail
  \/ ProcessSendFreqFail
  \/ ProcessRenderFail

VizSpec == Init /\ [][VizNext]_vars

\* --------------------------------------------------- PhaseAccumulator in use
\* A PhaseAccumulator constructed with some rate; the processor is not involved.
AccInit ==
  /\ ready = FALSE
  /\ InitProc
  /\ scheduler = NewScheduler(NUM_PARTIALS, MAX_EVENTS_PER_SINE)
  /\ trk = NewTracker(DEFAULT_TRACKER_INTERVAL)
  /\ InitTrkIdle
  /\ InitApiIdle
  /\ \E r \in AccRates : acc = NewPhaseAccumulator(r)
  /\ InitAccObs
  /\ InitFalling
  /\ InitTone

accOther == <<loopVars, trkVars, apiVars, fallingVars, ampVars, toneVars>>

AccSetRate ==
  /\ accCalls < MaxAccCalls
  /\ \E r \in AccRates :
       /\ acc' = SetRate(acc, r)
       /\ accShadow' = SetRate(accShadow, r)
  /\ accAnchor' = acc'
  /\ accMonotone' = TRUE
  /\ accInexact' = FALSE
  /\ accSteps' = 0
  /\ accRepeat' = FALSE
  /\ sinCalls' = <<>>
  /\ accCalls' = accCalls + 1
  /\ UNCHANGED <<accForward, accOther>>

AccAdvance ==
  /\ accCalls < MaxAccCalls
  /\ \E s \in AccPositions :
       /\ acc' = Advance(acc, s, AccSampleRate)
       /\ accShadow' = Advance(accShadow, s, AccSampleRate)
       /\ accMonotone' = (accMonotone /\ s >= acc.lastSample)
       /\ accForward' = (accForward /\ s >= acc.lastSample)
       /\ accInexact' = (accInexact \/ AdvanceRounds(acc, s, AccSampleRate))
       /\ accRepeat' = (accRepeat \/ s = acc.lastSample)
  /\ accSteps' = accSteps + 1
  /\ sinCalls' = <<>>
  /\ accCalls' = accCalls + 1
  /\ UNCHANGED <<accAnchor, accOther>>

AccSinAt ==
  /\ accCalls < MaxAccCalls
  /\ \E args \in SinAtArgs :
       LET r == SinAt(acc, args[1], AccSampleRate, args[2])
       IN /\ acc' = r.acc
          /\ sinCalls' = IF Len(sinCalls) < 2
                           THEN Append(sinCalls, [args |-> args, sinOf |-> r.sinOf])
                           ELSE <<sinCalls[2], [args |-> args, sinOf |-> r.sinOf]>>
  /\ accCalls' = accCalls + 1
  /\ UNCHANGED <<accShadow, accAnchor, accMonotone, accForward, accInexact,
                 accSteps, accRepeat, accOther>>

AccResetPhase ==
  /\ accCalls < MaxAccCalls
  /\ \E p \in ResetPhaseArgs :
       /\ acc' = ResetPhase(acc, p)
       /\ accShadow' = ResetPhase(accShadow, p)
  /\ accAnchor' = acc'
  /\ accMonotone' = TRUE
  /\ accInexact' = FALSE
  /\ accSteps' = 0
  /\ accRepeat' = FALSE
  /\ sinCalls' = <<>>
  /\ accCalls' = accCalls + 1
  /\ UNCHANGED <<accForward, accOther>>

AccNext ==
  \/ AccSetRate
  \/ AccAdvance
  \/ AccSinAt
  \/ AccResetPhase

AccSpec == AccInit /\ [][AccNext]_vars

\* ------------------------------------------- falling-harmonics modulator in use
fallingOther == <<loopVars, trkVars, apiVars, accVars, ampVars, toneVars>>

\* What an update did, seen from the fields before and after it.
UpdateKind(before, after) ==
  IF after.landed # before.landed
    THEN (IF after.landed = {} THEN "emptied" ELSE "landed")
    ELSE (IF after.pos # before.pos THEN "moved" ELSE "stayed")

MsgSetFallingEnabled ==
  /\ fallingMsgs < MaxFallingMsgs
  /\ \E v \in BOOLEAN : falling' = SetFallingEnabled(falling, v)
  /\ fallingMsgs' = fallingMsgs + 1
  /\ fallingLast' = "message"
  /\ AmplitudeSettingChanged
  /\ UNCHANGED <<loopVars, trkVars, apiVars, accVars, toneVars>>

\* The per-block update when Math.random() < fallingProbability.
FallingUpdateStep ==
  /\ falling.enabled
  /\ falling' = UpdateFallingHarmonics(falling, TRUE)
  /\ fallingLast' = UpdateKind(falling, falling')
  /\ UNCHANGED <<fallingMsgs, fallingOther>>

\* The per-block update when the random step is not taken, or the modulator is off.
FallingUpdateStay ==
  /\ falling' = UpdateFallingHarmonics(falling, FALSE)
  /\ fallingLast' = UpdateKind(falling, falling')
  /\ UNCHANGED <<fallingMsgs, fallingOther>>

FallingNext ==
  \/ MsgSetFallingEnabled
  \/ FallingUpdateStep
  \/ FallingUpdateStay

FallingSpec == Init /\ [][FallingNext]_vars

\* Blocks keep running and the random step keeps being taken.
FallingLiveSpec == FallingSpec /\ WF_vars(FallingUpdateStep)

\* ------------------------------------------------- amplitude of one partial
ampOther == <<loopVars, trkVars, apiVars, accVars, fallingVars, toneVars>>

MsgSetWavefolderEnabled ==
  /\ \E v \in BOOLEAN : wavefolderEnabled' = v
  /\ ampEval' = NULL /\ combEval' = NULL
  /\ UNCHANGED <<wavefolderAsymmetry, modEnabled, combSpacing, ampOther>>

\* Number(v) || 0
MsgSetWavefolderAsymmetry ==
  /\ \E v \in AsymmetryPayloads : wavefolderAsymmetry' = NumberOr(v, 0)
  /\ ampEval' = NULL /\ combEval' = NULL
  /\ UNCHANGED <<wavefolderEnabled, modEnabled, combSpacing, ampOther>>

\* 'set-lfo-enabled', 'set-random-enabled', ..., 'set-vowel-enabled': Boolean(v).
MsgSetModEnabled ==
  /\ \E m \in ModNames, v \in BOOLEAN : modEnabled' = [modEnabled EXCEPT ![m] = v]
  /\ ampEval' = NULL /\ combEval' = NULL
  /\ UNCHANGED <<wavefolderEnabled, wavefolderAsymmetry, combSpacing, ampOther>>

\* evaluateLfo, evaluateRandom, ..., evaluateVowel: 1.0 when disabled, else the
\* modulator's value, for which u stands.
EvaluateMod(m, u) == IF ~modEnabled[m] THEN Finite(1) ELSE Finite(u)

\* The values of the non-keyboard amplitude modulators for partial index i.
ModValues(i, w, u) ==
  [m \in ModNames \cup {"wavefolder", "falling"} |->
     IF m = "wavefolder"
       THEN EvaluateWavefolder(wavefolderEnabled, wavefolderAsymmetry, i + 1, w)
     ELSE IF m = "falling" THEN Finite(EvaluateFalling(falling, i))
     ELSE EvaluateMod(m, u)]

\* lfoValue * randomValue * lowpassValue * highpassValue * combValue * pwmValue
\* * wavefolderValue * barberPoleValue * fallingValue * vowelValue
BaseProduct(i, w, u) ==
  LET v == ModValues(i, w, u)
  IN  FMul(FMul(FMul(FMul(FMul(FMul(FMul(FMul(FMul(
        v["lfo"], v["random"]), v["lowpass"]), v["highpass"]), v["comb"]), v["pwm"]),
        v["wavefolder"]), v["barberPole"]), v["falling"]), v["vowel"])

\* The amplitudes process() computes for partial index i: the interval event
\* (combinedAmplitude / 16) and the override points A and B.
EvalAmplitude ==
  /\ \E i \in EvalPartials, w \in WavefolderSamples, u \in ModSamples :
       ampEval' = Some([partial   |-> i,
                        enabled   |-> {m \in ModNames : modEnabled[m]}
                                        \cup (IF wavefolderEnabled THEN {"wavefolder"} ELSE {})
                                        \cup (IF falling.enabled THEN {"falling"} ELSE {})
                                        \cup (IF keyboardGateEnabled THEN {"keyboardGate"} ELSE {}),
                        values    |-> ModValues(i, w, u),
                        gate      |-> EvaluateKeyboardGate,
                        base      |-> BaseProduct(i, w, u),
                        scheduled |-> FMul(BaseProduct(i, w, u), Finite(EvaluateKeyboardGate)),
                        pointA    |-> FMul(BaseProduct(i, w, u), Finite(PrevGateValue)),
                        pointB    |-> FMul(BaseProduct(i, w, u), Finite(EvaluateKeyboardGate))])
  /\ UNCHANGED <<wavefolderEnabled, wavefolderAsymmetry, modEnabled, combSpacing,
                 combEval, ampOther>>

AmpNext ==
  \/ MsgSetKeyboardGateEnabled
  \/ MsgSetKeyboardGate
  \/ MsgSetWavefolderEnabled
  \/ MsgSetWavefolderAsymmetry
  \/ MsgSetFallingEnabled
  \/ EvalAmplitude

AmpSpec == Init /\ [][AmpNext]_vars

\* Number(v) || 4
MsgSetCombSpacing ==
  /\ \E v \in CombSpacingPayloads : combSpacing' = NumberOr(v, 4)
  /\ ampEval' = NULL /\ combEval' = NULL
  /\ UNCHANGED <<wavefolderEnabled, wavefolderAsymmetry, modEnabled, ampOther>>

\* combValue of harmonic n, which is the unscaled combined amplitude when the comb
\* is the only modulator enabled (the other factors are 1.0).
EvalComb ==
  /\ \E n \in Harmonics :
       combEval' = Some([partialNum |-> n,
                         spacing    |-> combSpacing,
                         onlyComb   |-> /\ {m \in ModNames : modEnabled[m]} = {"comb"}
                                        /\ ~wavefolderEnabled /\ ~falling.enabled
                                        /\ ~keyboardGateEnabled,
                         value      |-> EvaluateComb(modEnabled["comb"], combSpacing, n)])
  /\ UNCHANGED <<wavefolderEnabled, wavefolderAsymmetry, modEnabled, combSpacing,
                 ampEval, ampOther>>

CombNext ==
  \/ MsgSetModEnabled
  \/ MsgSetCombSpacing
  \/ EvalComb

CombSpec == Init /\ [][CombNext]_vars

\* The modulators switched on and off, and the amplitudes computed.
NeutralNext ==
  \/ MsgSetModEnabled
  \/ MsgSetWavefolderEnabled
  \/ MsgSetFallingEnabled
  \/ MsgSetKeyboardGateEnabled
  \/ EvalAmplitude

NeutralSpec == Init /\ [][NeutralNext]_vars

\* ------------------------------------------------------------ ToneProcessor
\* The single-voice ToneProcessor: port.onmessage pushes every message on
\* commandQueue, and process() handles the queue before it renders.
toneOther == <<loopVars, trkVars, apiVars, accVars, fallingVars, ampVars>>

\* The messages posted: 'start' and 'stop', with or without an id and a freq.
ToneCommands ==
  [command : {"start", "stop"}, id : {NULL, Some(1)}, freq : {NULL, Some(220)}]

\* msg.id, taken as it is.
VoiceIdOfNoDefault(msg) == msg.id

\* msg.id ?? 0
VoiceIdOf(msg) == IF IsNull(msg.id) THEN Some(0) ELSE msg.id

\* msg.freq ?? 440
VoiceFreqOf(msg) == IF IsNull(msg.freq) THEN 440 ELSE Val(msg.freq)

\* One pass of the loop body of process() over msg; st holds voiceId and the
\* renderer calls made so far.
HandleCommand(st, msg) ==
  IF msg.command = "start" /\ IsNull(st.voiceId)
  THEN LET id == VoiceIdOf(msg) IN
       [voiceId |-> id,
        calls |-> Append(st.calls, [fn |-> "start_voice", id |-> id,
                                    freq |-> Some(VoiceFreqOf(msg))])]
  ELSE IF msg.command = "stop" /\ ~IsNull(st.voiceId)
  THEN [voiceId |-> NULL,
        calls |-> Append(st.calls, [fn |-> "stop_voice", id |-> st.voiceId,
                                    freq |-> NULL])]
  ELSE st

\* for (const msg of this.commandQueue): the queue from its first entry to its last.
RECURSIVE HandleCommands(_, _)
HandleCommands(st, queue) ==
  IF queue = <<>> THEN st
  ELSE HandleCommands(HandleCommand(st, Head(queue).msg), Tail(queue))

\* port.onmessage
ToneMessage ==
  /\ toneArrived < MaxToneMsgs
  /\ \E cmd \in ToneCommands :
       commandQueue' = Append(commandQueue, [msg |-> cmd, seq |-> toneArrived + 1])
  /\ toneArrived' = toneArrived + 1
  /\ toneLast' = "message"
  /\ UNCHANGED <<toneReady, voiceId, voiceCalls, toneHandled, toneBlocks, toneOther>>

\* process()
ToneProcess ==
  /\ toneBlocks < MaxToneBlocks
  /\ toneBlocks' = toneBlocks + 1
  /\ toneLast' = "process"
  /\ IF ~toneReady
     THEN UNCHANGED <<commandQueue, voiceId, voiceCalls, toneHandled>>
     ELSE LET st == HandleCommands([voiceId |-> voiceId, calls |-> voiceCalls],
                                   commandQueue) IN
          /\ voiceId' = st.voiceId
          /\ voiceCalls' = st.calls
          /\ toneHandled' = toneHandled \o commandQueue
          /\ commandQueue' = <<>>
  /\ UNCHANGED <<toneReady, toneArrived, toneOther>>

\* A ToneProcessor whose constructor did or did not get the renderer set up.
ToneInit ==
  /\ ready = FALSE
  /\ InitProc
  /\ scheduler = NewScheduler(NUM_PARTIALS, MAX_EVENTS_PER_SINE)
  /\ trk = NewTracker(DEFAULT_TRACKER_INTERVAL)
  /\ InitTrkIdle
  /\ InitApiIdle
  /\ InitAcc
  /\ InitFalling
  /\ toneReady \in BOOLEAN
  /\ InitToneFields

ToneNext ==
  \/ ToneMessage
  \/ ToneProcess

ToneSpec == ToneInit /\ [][ToneNext]_vars

\* ------------------------------------------- EventTimestampTracker in use
NewGenObs ==
  [out |-> <<>>, prevYield |-> NULL, clean |-> TRUE, fresh |-> FALSE,
   epoch |-> 0, ord |-> 0, beforeReset |-> NULL]

\* generateSamples(blockStart, targetSample): a generator object is created.
TrkGenerate ==
  /\ Len(gens) < MaxGens /\ trkCalls < MaxTrkCalls
  /\ \E b \in BlockStarts, tg \in Targets :
       gens' = Append(gens, NewGenerator(b, tg))
  /\ genObs' = Append(genObs, NewGenObs)
  /\ lastCount' = NULL
  /\ trkCalls' = trkCalls + 1
  /\ UNCHANGED <<trk, trkLastYield, trkEpoch, trkStarts, trkBeforeReset,
                 loopVars, apiVars, extVars>>

\* next() on one of the generators that has not finished.
TrkNext ==
  /\ trkCalls < MaxTrkCalls
  /\ \E k \in 1..Len(gens) :
       /\ gens[k].state # "done"
       /\ LET r == GenNext(trk, gens[k])
              starting == gens[k].state = "created"
              busy == \E j \in 1..Len(gens) : j # k /\ gens[j].state = "suspended"
              mine == IF starting
                        THEN [genObs[k] EXCEPT !.prevYield = trkLastYield,
                                               !.clean = ~busy,
                                               !.fresh = IsNull(trk.lastSample),
                                               !.epoch = trkEpoch,
                                               !.ord = trkStarts + 1,
                                               !.beforeReset = trkBeforeReset]
                        ELSE genObs[k]
          IN /\ trk' = r.trk
             /\ gens' = [gens EXCEPT ![k] = r.gen]
             /\ genObs' = [j \in 1..Len(genObs) |->
                            IF j = k
                              THEN [mine EXCEPT !.out = IF IsNull(r.yielded) THEN @
                                                        ELSE Append(@, Val(r.yielded))]
                            ELSE IF starting /\ gens[j].state = "suspended"
                              THEN [genObs[j] EXCEPT !.clean = FALSE]
                            ELSE genObs[j]]
             /\ trkLastYield' = IF IsNull(r.yielded) THEN trkLastYield ELSE r.yielded
             /\ trkStarts' = IF starting THEN trkStarts + 1 ELSE trkStarts
  /\ lastCount' = NULL
  /\ trkBeforeReset' = NULL
  /\ trkCalls' = trkCalls + 1
  /\ UNCHANGED <<trkEpoch, loopVars, apiVars, extVars>>

\* countEvents(blockStart, targetSample): the tracker is only read.
TrkCountEvents ==
  /\ trkCalls < MaxTrkCalls
  /\ \E b \in BlockStarts, tg \in Targets :
       lastCount' = Some([pre |-> trk, blockStart |-> b, targetSample |-> tg,
                          ret |-> CountEvents(trk, b, tg)])
  /\ trkCalls' = trkCalls + 1
  /\ UNCHANGED <<trk, gens, genObs, trkLastYield, trkEpoch, trkStarts, trkBeforeReset,
                 loopVars, apiVars, extVars>>

TrkReset ==
  /\ trkEpoch < MaxResets /\ trkCalls < MaxTrkCalls
  /\ trk' = TrackerReset(trk)
  /\ trkBeforeReset' = Some(trk)
  /\ trkEpoch' = trkEpoch + 1
  /\ trkLastYield' = NULL
  /\ lastCount' = NULL
  /\ trkCalls' = trkCalls + 1
  /\ UNCHANGED <<gens, genObs, trkStarts, loopVars, apiVars, extVars>>

TrackerNext ==
  \/ TrkGenerate
  \/ TrkNext
  \/ TrkCountEvents
  \/ TrkReset

TrackerSpec == TrackerInit /\ [][TrackerNext]_vars

\* ---------------------------------------------- SineEventScheduler in use
\* Calls follow the documented pattern: beginFrame; then per sine beginSine,
\* add...Event calls, endSine.
InSection == ~IsNull(scheduler.currentSineId)
apiOther == <<procVars, kbdVars, cursorVars, vizUpdateCounter, pc, currentSample,
              rendererVars, obsVars, ioVars, faultVars, trkVars, extVars>>

ApiBeginFrame ==
  /\ apiCalls < MaxApiCalls
  /\ ~InSection
  /\ scheduler' = BeginFrame(scheduler)
  /\ apiSections' = <<>>
  /\ apiLast' = Some([op |-> "beginFrame", ret |-> TRUE, pre |-> scheduler])
  /\ apiCalls' = apiCalls + 1
  /\ UNCHANGED apiOther

ApiBeginSine ==
  /\ apiCalls < MaxApiCalls
  /\ ~InSection
  /\ \E a \in BeginSineArgs :
       /\ scheduler' = BeginSine(scheduler, a[1], a[2])
       /\ apiSections' = Append(apiSections,
                                [id |-> a[1], override |-> a[2], amp |-> <<>>,
                                 freq |-> <<>>])
  /\ apiLast' = Some([op |-> "beginSine", ret |-> TRUE, pre |-> scheduler])
  /\ apiCalls' = apiCalls + 1
  /\ UNCHANGED apiOther

ApiAddAmplitudeEvent ==
  /\ apiCalls < MaxApiCalls
  /\ InSection
  /\ \E a \in AmpEventArgs :
       /\ scheduler' = AddAmplitudeEvent(scheduler, a[1], a[2])
       /\ apiSections' = IF AmpEventAccepted(scheduler)
                           THEN [apiSections EXCEPT ![Len(apiSections)].amp = @ \o a]
                           ELSE apiSections
  /\ apiLast' = Some([op |-> "addAmplitudeEvent", ret |-> AmpEventAccepted(scheduler),
                      pre |-> scheduler])
  /\ apiCalls' = apiCalls + 1
  /\ UNCHANGED apiOther

ApiAddFrequencyEvent ==
  /\ apiCalls < MaxApiCalls
  /\ InSection
  /\ \E a \in FreqEventArgs :
       /\ scheduler' = AddFrequencyEvent(scheduler, a[1], a[2])
       /\ apiSections' = IF FreqEventAccepted(scheduler)
                           THEN [apiSections EXCEPT ![Len(apiSections)].freq = @ \o a]
                           ELSE apiSections
  /\ apiLast' = Some([op |-> "addFrequencyEvent", ret |-> FreqEventAccepted(scheduler),
                      pre |-> scheduler])
  /\ apiCalls' = apiCalls + 1
  /\ UNCHANGED apiOther

ApiEndSine ==
  /\ apiCalls < MaxApiCalls
  /\ InSection
  /\ scheduler' = EndSine(scheduler)
  /\ apiLast' = Some([op |-> "endSine", ret |-> TRUE, pre |-> scheduler])
  /\ apiCalls' = apiCalls + 1
  /\ UNCHANGED <<apiSections, apiOther>>

SchedulerNext ==
  \/ ApiBeginFrame
  \/ ApiBeginSine
  \/ ApiAddAmplitudeEvent
  \/ ApiAddFrequencyEvent
  \/ ApiEndSine

SchedulerSpec == SchedulerInit /\ [][SchedulerNext]_vars

\* ================================================================= claims
StrictlyIncreasing(seq) == \A k \in 1..(Len(seq) - 1) : seq[k] < seq[k + 1]
NoDuplicates(seq) == \A j, k \in 1..Len(seq) : j # k => seq[j] # seq[k]
AmpSections == ParseSections(GetAmplitudeBuffer(scheduler))
FreqSections == ParseSections(GetFrequencyBuffer(scheduler))

\* C1: for every partial and each stream, the timestamps the control loop has emitted
\* in non-override sections, over all blocks so far, are strictly increasing (so none
\* is emitted twice); only override sections reach back.
C1_NonOverrideTimestampsIncrease ==
  \A i \in Partials : StrictlyIncreasing(ampLog[i]) /\ StrictlyIncreasing(freqLog[i])

\* An override block whose point A is not after the cursor left by earlier blocks,
\* followed in the same block by interval-scheduled events.
C1_Witness ==
  /\ pc = "sendAmp" /\ overrideBlock /\ blocks >= 2
  /\ ~IsNull(blockStartAmp[1]) /\ Val(blockStartAmp[1]) >= currentSample
  /\ Len(ampLog[1]) >= 4 /\ Len(freqLog[1]) >= 4

\* C2: every batch the control loop submits is accepted by the renderer's ordering
\* rule: each non-override section starts strictly after everything still staged for
\* that sine and stream, once the override sections before it in the batch have
\* discarded the staged events at or after their first timestamp.
C2_BatchInOrder ==
  /\ (pc = "sendAmp" /\ HasAmplitudeEvents(scheduler))
        => AddEvents(stagedAmp, GetAmplitudeBuffer(scheduler)).ok
  /\ (pc = "sendFreq" /\ HasFrequencyEvents(scheduler))
        => AddEvents(stagedFreq, GetFrequencyBuffer(scheduler)).ok

\* A batch with override and normal sections, submitted while events at or after the
\* current sample are still staged.
C2_Witness ==
  /\ pc = "sendFreq" /\ overrideBlock
  /\ \E id \in SineIdRange : \E u \in stagedFreq[id] : u >= currentSample
  /\ \E k \in 1..Len(FreqSections) : ~FreqSections[k].override /\ FreqSections[k].count > 0

OverridePair(sec, id) ==
  /\ sec.id = id /\ sec.override /\ sec.count = 2 /\ Len(sec.events) = 2
  /\ sec.events[1].sample = currentSample
  /\ sec.events[2].sample = sec.events[1].sample + 8
  /\ sec.events[1].sample < sec.events[2].sample

\* C3: a block injects exactly when a control edge is pending; right after the
\* injection each partial has, in both streams, one override section holding exactly
\* point A at the current sample and point B 8 samples later, and both cursors of the
\* partial are B's timestamp; the pairs stay the first sections of the batch.
C3_OverridePairPerPartial ==
  /\ pc = "inject" => needsImmediateEvent
  /\ pc \notin {"idle", "inject"} => ~needsImmediateEvent
  /\ (overrideBlock /\ pc \in {"schedule", "sendAmp", "sendFreq"}) =>
       /\ Len(AmpSections) >= NUM_PARTIALS /\ Len(FreqSections) >= NUM_PARTIALS
       /\ \A i \in Partials : /\ OverridePair(AmpSections[i], sineIds[i])
                              /\ OverridePair(FreqSections[i], sineIds[i])
       /\ \A k \in 1..Len(AmpSections) : k > NUM_PARTIALS => ~AmpSections[k].override
       /\ \A k \in 1..Len(FreqSections) : k > NUM_PARTIALS => ~FreqSections[k].override
  /\ (overrideBlock /\ pc = "schedule") =>
       /\ Len(AmpSections) = NUM_PARTIALS /\ Len(FreqSections) = NUM_PARTIALS
       /\ \A i \in Partials :
            /\ lastAmpEventSample[i] = Some(AmpSections[i].events[2].sample)
            /\ lastFreqEventSample[i] = Some(FreqSections[i].events[2].sample)

C3_Witness == pc = "schedule" /\ overrideBlock /\ blocks >= 1

GateFactor(enabled, open) == IF enabled THEN (IF open THEN 1 ELSE 0) ELSE 1
PitchFactor(enabled, ratio) == IF enabled THEN ratio ELSE 1

\* C4: in every override after the first block, point A carries the value computed
\* from the gate state and pitch ratio the previous block scheduled with, and point B
\* the value computed from the state after the change.
C4_PointAFromPreviousBlock ==
  (pc = "schedule" /\ overrideBlock /\ blocks >= 1) =>
    \A i \in Partials :
      /\ AmpSections[i].events[1].value
           = BaseAmplitude(i - 1) * GateFactor(keyboardGateEnabled, blockGateOpen)
      /\ AmpSections[i].events[2].value
           = BaseAmplitude(i - 1) * GateFactor(keyboardGateEnabled, keyboardGateOpen)
      /\ FreqSections[i].events[1].value
           = baseFreq * PitchFactor(keyboardPitchEnabled, blockPitchRatio) * i
      /\ FreqSections[i].events[2].value
           = baseFreq * PitchFactor(keyboardPitchEnabled, keyboardPitchRatio) * i

CursorNotBefore(now, before) ==
  IsNull(before) \/ (~IsNull(now) /\ Val(now) >= Val(before))

RanInSuccession(a, b) ==
  /\ gens[a].state = "done" /\ gens[b].state = "done"
  /\ genObs[a].fresh /\ genObs[a].clean /\ genObs[b].clean
  /\ genObs[b].ord = genObs[a].ord + 1
  /\ genObs[a].epoch = genObs[b].epoch

\* C6: restart correctness: fully consuming generateSamples(b, t1) on a fresh tracker
\* and then generateSamples(b2, t2), with b <= t1 <= t2, yields in all exactly what a
\* fresh tracker yields for generateSamples(b, t2), without a repeated timestamp.
C6_RestartCorrectness ==
  \A a, b \in 1..Len(gens) :
    ( /\ RanInSuccession(a, b)
      /\ gens[a].blockStart <= gens[a].targetSample
      /\ gens[a].targetSample <= gens[b].targetSample )
    => /\ genObs[a].out \o genObs[b].out
            = GetSamples(NewTracker(trk.interval), gens[a].blockStart, gens[b].targetSample)
       /\ NoDuplicates(genObs[a].out \o genObs[b].out)

\* [0,300] then [301,600] with interval 128.
C6_Witness ==
  \E a, b \in 1..Len(gens) :
    /\ RanInSuccession(a, b)
    /\ trk.interval = 128
    /\ gens[a].blockStart = 0 /\ gens[a].targetSample = 300
    /\ gens[b].blockStart = 301 /\ gens[b].targetSample = 600
    /\ genObs[a].out # <<>> /\ genObs[b].out # <<>>

\* C7: countEvents(blockStart, targetSample) returns the number of values
\* generateSamples(blockStart, targetSample) yields from the same tracker state, and
\* the tracker is the same after the call.
C7_CountMatchesGenerate ==
  ~IsNull(lastCount) =>
    LET c == Val(lastCount)
    IN /\ c.ret = Len(GetSamples(c.pre, c.blockStart, c.targetSample))
       /\ trk = c.pre

C7_Witness ==
  /\ ~IsNull(lastCount)
  /\ ~IsNull(Val(lastCount).pre.lastSample)
  /\ Val(lastCount).ret >= 2

\* C8: whenever a sequence is started on a tracker that has already yielded a value
\* (since the last reset), whatever became of the earlier sequences, its first value
\* is one interval past the last value yielded.
C8_ResumesAfterLastYield ==
  \A k \in 1..Len(gens) :
    (genObs[k].ord > 0 /\ ~IsNull(genObs[k].prevYield) /\ genObs[k].out # <<>>)
      => genObs[k].out[1] = Val(genObs[k].prevYield) + trk.interval

RECURSIVE Encoding(_, _, _)
\* [id, k, override ? 1 : 0, s_1, v_1, ..., s_k, v_k] per section, concatenated.
Encoding(secs, k, amp) ==
  IF k > Len(secs) THEN <<>>
  ELSE LET ev == IF amp THEN secs[k].amp ELSE secs[k].freq
       IN <<secs[k].id, Len(ev) \div 2, IF secs[k].override THEN 1 ELSE 0>> \o ev
          \o Encoding(secs, k + 1, amp)

AsFloat32(seq) == [k \in 1..Len(seq) |-> Fround(seq[k])]

\* C9 as stated: between sections, each buffer is exactly the concatenation of the
\* sections written since beginFrame.
C9_ExactEncoding ==
  ~InSection =>
    /\ GetAmplitudeBuffer(scheduler) = Encoding(apiSections, 1, TRUE)
    /\ GetFrequencyBuffer(scheduler) = Encoding(apiSections, 1, FALSE)

\* C9 amended: between sections, as long as the sections written since beginFrame fit
\* the preallocated buffers, each buffer holds the concatenation of the sections with
\* every entry rounded to float32.
C9_Float32Encoding ==
  ( /\ ~InSection
    /\ Len(Encoding(apiSections, 1, TRUE)) <= Len(scheduler.ampBuffer)
    /\ Len(Encoding(apiSections, 1, FALSE)) <= Len(scheduler.freqBuffer) )
  => /\ GetAmplitudeBuffer(scheduler) = AsFloat32(Encoding(apiSections, 1, TRUE))
     /\ GetFrequencyBuffer(scheduler) = AsFloat32(Encoding(apiSections, 1, FALSE))

\* Two finished sections that fit, one holding a value float32 cannot represent.
C9_Witness ==
  /\ ~InSection /\ Len(apiSections) = 2
  /\ Len(Encoding(apiSections, 1, TRUE)) <= Len(scheduler.ampBuffer)
  /\ apiSections[1].amp = <<100, 1, 228, 33554435>>
  /\ apiSections[2].override /\ apiSections[2].freq # <<>>
  /\ GetAmplitudeBuffer(scheduler) # Encoding(apiSections, 1, TRUE)

\* C10: an add...Event call made once the section holds maxEventsPerSine events of that
\* stream returns false and leaves that stream's buffer, write offset and count as they
\* were; a call on a stream never touches the other stream, and a stream below its cap
\* still accepts events while the other is full.
C10_CapRefusesWithoutMutation ==
  ~IsNull(apiLast) =>
    LET c == Val(apiLast) IN
    /\ c.op = "addAmplitudeEvent" =>
         /\ scheduler.freqBuffer = c.pre.freqBuffer
         /\ scheduler.freqOffset = c.pre.freqOffset
         /\ scheduler.currentFreqCount = c.pre.currentFreqCount
         /\ IF c.pre.currentAmpCount >= c.pre.maxEventsPerSine
              THEN /\ c.ret = FALSE
                   /\ scheduler.ampBuffer = c.pre.ampBuffer
                   /\ scheduler.ampOffset = c.pre.ampOffset
                   /\ scheduler.currentAmpCount = c.pre.currentAmpCount
              ELSE /\ c.ret = TRUE
                   /\ scheduler.ampOffset = c.pre.ampOffset + 2
                   /\ scheduler.currentAmpCount = c.pre.currentAmpCount + 1
    /\ c.op = "addFrequencyEvent" =>
         /\ scheduler.ampBuffer = c.pre.ampBuffer
         /\ scheduler.ampOffset = c.pre.ampOffset
         /\ scheduler.currentAmpCount = c.pre.currentAmpCount
         /\ IF c.pre.currentFreqCount >= c.pre.maxEventsPerSine
              THEN /\ c.ret = FALSE
                   /\ scheduler.freqBuffer = c.pre.freqBuffer
                   /\ scheduler.freqOffset = c.pre.freqOffset
                   /\ scheduler.currentFreqCount = c.pre.currentFreqCount
              ELSE /\ c.ret = TRUE
                   /\ scheduler.freqOffset = c.pre.freqOffset + 2
                   /\ scheduler.currentFreqCount = c.pre.currentFreqCount + 1

\* The amplitude stream refuses an event at its cap of 2 while the frequency stream,
\* below its cap, has kept accepting.
C10_Witness ==
  /\ ~IsNull(apiLast)
  /\ Val(apiLast).op = "addAmplitudeEvent" /\ Val(apiLast).ret = FALSE
  /\ Val(apiLast).pre.maxEventsPerSine = 2
  /\ scheduler.currentFreqCount = 1

\* The sections of a batch that belong to partial i (1-based), override or not.
RECURSIVE SectionsOf(_, _, _, _)
SectionsOf(secs, k, id, override) ==
  IF k > Len(secs) THEN <<>>
  ELSE (IF secs[k].id = id /\ secs[k].override = override THEN <<secs[k]>> ELSE <<>>)
       \o SectionsOf(secs, k + 1, id, override)

Scheduled == pc \in {"sendAmp", "sendFreq", "render"}

\* C11: in every block, with or without a control edge, both write offsets of the
\* control loop's scheduler stay within the preallocated capacity
\* maxSines x (3 + maxEventsPerSine x 2), which is 608 entries for 32 partials and 8
\* events.
C11_OffsetsWithinCapacity ==
  /\ BufferSize(32, MAX_EVENTS_PER_SINE) = 608
  /\ Len(scheduler.ampBuffer) = BufferSize(NUM_PARTIALS, MAX_EVENTS_PER_SINE)
  /\ Len(scheduler.freqBuffer) = BufferSize(NUM_PARTIALS, MAX_EVENTS_PER_SINE)
  /\ scheduler.ampOffset <= Len(scheduler.ampBuffer)
  /\ scheduler.freqOffset <= Len(scheduler.freqBuffer)

\* A block with a control edge: an override and a normal section per partial.
C11_Witness ==
  /\ pc = "sendAmp" /\ overrideBlock
  /\ Len(AmpSections) = 2 * NUM_PARTIALS /\ Len(FreqSections) = 2 * NUM_PARTIALS
  /\ scheduler.ampOffset > 7 * NUM_PARTIALS

\* How many timestamps first, first + 128, ... are at or before target.
IntervalPoints(first, target) ==
  IF first > target THEN 0 ELSE ((target - first) \div EVENT_INTERVAL) + 1

\* The cursor the scheduling loop of this block started from.
LoopStart(blockStart, i) == IF overrideBlock THEN Some(currentSample + 8) ELSE blockStart[i]

\* C12: no add...Event call of the control loop is refused: every normal section
\* holds as many events as its loop made add calls, every override section holds its
\* 2; and in blocks after the first started one a partial gets at most 2
\* interval-scheduled points per stream.
C12_CapNeverHit ==
  Scheduled =>
    \A i \in Partials :
      LET na == SectionsOf(AmpSections, 1, sineIds[i], FALSE)
          nf == SectionsOf(FreqSections, 1, sineIds[i], FALSE)
          oa == SectionsOf(AmpSections, 1, sineIds[i], TRUE)
          of == SectionsOf(FreqSections, 1, sineIds[i], TRUE)
      IN /\ Len(na) = 1 /\ Len(nf) = 1
         /\ na[1].count = IntervalPoints(FirstSample(LoopStart(blockStartAmp, i), currentSample),
                                         TargetSample(currentSample))
         /\ nf[1].count = IntervalPoints(FirstSample(LoopStart(blockStartFreq, i), currentSample),
                                         TargetSample(currentSample))
         /\ na[1].count <= MAX_EVENTS_PER_SINE /\ nf[1].count <= MAX_EVENTS_PER_SINE
         /\ blocks >= 1 => (na[1].count <= 2 /\ nf[1].count <= 2)
         /\ Len(oa) = (IF overrideBlock THEN 1 ELSE 0) /\ Len(of) = Len(oa)
         /\ overrideBlock => (oa[1].count = 2 /\ of[1].count = 2)

\* The first started block schedules 3 points per stream; a later block with a
\* control edge holds 2 override points and an interval point.
C12_Witness ==
  /\ Scheduled /\ overrideBlock /\ blocks >= 1
  /\ Len(ampLog[1]) >= 4 /\ ampLog[1][3] = 2 * EVENT_INTERVAL
  /\ SectionsOf(AmpSections, 1, sineIds[1], FALSE)[1].count = 1

\* C13: when the scheduling of a started block is done, every cursor is strictly past
\* the block end currentSample + 128 and at most one interval (128) beyond it,
\* override block or not.
C13_Lookahead ==
  Scheduled =>
    \A i \in Partials :
      /\ ~IsNull(lastAmpEventSample[i]) /\ ~IsNull(lastFreqEventSample[i])
      /\ Val(lastAmpEventSample[i]) > currentSample + BLOCK_SIZE
      /\ Val(lastAmpEventSample[i]) <= currentSample + BLOCK_SIZE + 128
      /\ Val(lastFreqEventSample[i]) > currentSample + BLOCK_SIZE
      /\ Val(lastFreqEventSample[i]) <= currentSample + BLOCK_SIZE + 128

\* An override block and the block after it, whose cursor is not a multiple of 128.
C13_Witness ==
  /\ Scheduled /\ ~overrideBlock /\ overrides >= 1
  /\ Val(lastAmpEventSample[1]) % EVENT_INTERVAL = 8
  /\ Val(lastAmpEventSample[1]) < currentSample + BLOCK_SIZE + 128

\* C14 as stated: a block that injects override pairs emits no interval-scheduled
\* event for any partial.
C14_InjectionOrScheduling ==
  (Scheduled /\ overrideBlock) =>
    \A i \in Partials :
      /\ NormalSamples(AmpSections, 1, sineIds[i]) = <<>>
      /\ NormalSamples(FreqSections, 1, sineIds[i]) = <<>>

\* C14 amended: interval scheduling runs in every started block; in a block that
\* injects override pairs it runs after the injection and emits, per partial and
\* stream, exactly one interval event, one interval past point B.
C14_InjectionThenScheduling ==
  Scheduled =>
    \A i \in Partials :
      /\ Len(SectionsOf(AmpSections, 1, sineIds[i], FALSE)) = 1
      /\ Len(SectionsOf(FreqSections, 1, sineIds[i], FALSE)) = 1
      /\ overrideBlock =>
           /\ NormalSamples(AmpSections, 1, sineIds[i]) = <<currentSample + 8 + 128>>
           /\ NormalSamples(FreqSections, 1, sineIds[i]) = <<currentSample + 8 + 128>>

C14_Witness ==
  /\ pc = "sendFreq" /\ overrideBlock /\ blocks >= 1
  /\ NormalSamples(FreqSections, 1, sineIds[NUM_PARTIALS]) # <<>>

\* C17: if the renderer failed to initialize (ready is false after construction), then
\* whatever messages and blocks follow: ready and started stay false, no sines are
\* added, no renderer operation is called, every process() call returns without
\* rendering, and the port has carried exactly the one 'error' message.
C17_InitFailureIsFatal ==
  /\ [](~ready =>
          /\ ~started /\ sineIds = <<>>
          /\ addSinesLog = <<>> /\ blockCalls = <<>> /\ samplePos = 0
          /\ lastOutput \in {"none", "untouched"}
          /\ posted = <<"error">> /\ vizPosted = 0)
  /\ [][~ready => ~ready']_vars

\* Not ready, a 'start' message handled, and process() called after it.
C17_Witness ==
  /\ ~ready
  /\ lastMsg = Handled("start", 0)
  /\ lastOutput = "untouched" /\ lastReturn = Some(TRUE)

\* C18: add_sines is called at most once, only when the processor is ready, with one
\* phase per partial; and a 'start' message handled when the synth has started
\* changes neither the sine ids nor the cursors.
C18_SinesAddedOnce ==
  /\ [](/\ Len(addSinesLog) <= 1
        /\ started <=> addSinesLog # <<>>
        /\ addSinesLog # <<>> =>
             (ready /\ addSinesLog[1] = NUM_PARTIALS /\ Len(sineIds) = NUM_PARTIALS))
  /\ [][(started /\ MsgStart) =>
          UNCHANGED <<sineIds, lastAmpEventSample, lastFreqEventSample, addSinesLog>>]_vars

\* A 'start' message handled after blocks have run and moved the cursors.
C18_Witness ==
  /\ started /\ blocks >= 1
  /\ lastMsg = Handled("start", 0)
  /\ ~IsNull(lastAmpEventSample[1])
  /\ Len(addSinesLog) = 1

\* C19: handling a message that is null, untyped, or typed with a tag that has no
\* registered handler raises no error.
C19_UnregisteredIgnored ==
  (~IsNull(lastMsg) /\ Val(lastMsg).type \notin RegisteredTags) => ~Val(lastMsg).threw

\* C20: after a 'set-base-freq' message with numeric payload v (0 included) has been
\* handled, the base frequency is v.
C20_LastWriteWins ==
  (~IsNull(lastMsg) /\ Val(lastMsg).type = "set-base-freq") => baseFreq = Val(lastMsg).value

FullBlockCalls ==
  <<"get_current_sample_position", "lfo.advance", "beginFrame",
    "add_amplitude_events", "add_frequency_events", "render">>

CallCount(calls, op) == Cardinality({k \in 1..Len(calls) : calls[k] = op})

\* C15: a block whose render call failed leaves the output block zero-filled, has
\* called render exactly once, and returns true; the block after it runs all its
\* steps, schedules with full lookahead, and delivers audio when its render succeeds.
C15_RenderFailureSilencesBlock ==
  /\ ("render" \in blockFaults /\ pc \in {"publish", "idle"}) =>
       (lastOutput = "zero" /\ CallCount(blockCalls, "render") = 1)
  /\ ("render" \in blockFaults /\ pc = "idle") => lastReturn = Some(TRUE)
  /\ ("render" \in prevFaults /\ pc \in {"publish", "idle"}) =>
       /\ blockCalls = FullBlockCalls
       /\ "render" \notin blockFaults => lastOutput = "audio"
       /\ \A i \in Partials :
            /\ Len(SectionsOf(AmpBatch, 1, sineIds[i], FALSE)) = 1
            /\ Val(lastAmpEventSample[i]) > currentSample + BLOCK_SIZE
            /\ Val(lastFreqEventSample[i]) > currentSample + BLOCK_SIZE

\* A block whose render failed, then a whole block without failure.
C15_Witness ==
  /\ pc = "idle" /\ "render" \in prevFaults /\ blockFaults = {}
  /\ lastOutput = "audio" /\ lastReturn = Some(TRUE)

\* C16 as stated: a failed event submission does not stop the block's remaining
\* renderer calls, the cursors stay past every dropped timestamp, and no later block
\* submits a timestamp of a dropped batch again.
C16_DroppedNeverResubmitted ==
  /\ pc = "publish" => blockCalls = FullBlockCalls
  /\ (~posStalled /\ pc \in {"sendAmp", "sendFreq", "render", "publish", "idle"}) =>
       \A i \in Partials :
         /\ \A u \in droppedAmp[i] : Val(lastAmpEventSample[i]) >= u
         /\ \A u \in droppedFreq[i] : Val(lastFreqEventSample[i]) >= u
  /\ (~posStalled /\ pc = "sendAmp") =>
       \A i \in Partials :
         /\ SectionSamples(AmpBatch, sineIds[i]) \cap droppedAmp[i] = {}
         /\ SectionSamples(FreqBatch, sineIds[i]) \cap droppedFreq[i] = {}

\* C16 amended: as C16, but only the interval-scheduled sections of later blocks are
\* free of dropped timestamps; an override pair may carry one.
C16_DroppedNeverRescheduled ==
  /\ pc = "publish" => blockCalls = FullBlockCalls
  /\ (~posStalled /\ pc \in {"sendAmp", "sendFreq", "render", "publish", "idle"}) =>
       \A i \in Partials :
         /\ \A u \in droppedAmp[i] : Val(lastAmpEventSample[i]) >= u
         /\ \A u \in droppedFreq[i] : Val(lastFreqEventSample[i]) >= u
  /\ (~posStalled /\ pc = "sendAmp") =>
       \A i \in Partials :
         /\ SampleSet(SectionsOf(AmpBatch, 1, sineIds[i], FALSE)[1].events)
              \cap droppedAmp[i] = {}
         /\ SampleSet(SectionsOf(FreqBatch, 1, sineIds[i], FALSE)[1].events)
              \cap droppedFreq[i] = {}

\* A block whose amplitude batch was dropped, then a whole block with a control edge.
C16_Witness ==
  /\ pc = "idle" /\ ~posStalled
  /\ "add_amplitude_events" \in prevFaults /\ blockFaults = {}
  /\ blockCalls = FullBlockCalls /\ lastOutput = "audio"
  /\ overrideBlock /\ droppedAmp[1] # {}

\* C21: handling a control message a second time, with the same payload and no block
\* in between, leaves the processor state as the first handling left it; stated for
\* the gate and pitch-ratio messages in every state in which a message can arrive.
C21_ControlUpdatesIdempotent ==
  (started /\ pc = "idle") =>
    /\ \A v \in BOOLEAN :
         SetKeyboardGate(SetKeyboardGate(KeyboardState, v), v)
           = SetKeyboardGate(KeyboardState, v)
    /\ \A v \in PitchRatioPayloads :
         SetKeyboardPitchRatio(SetKeyboardPitchRatio(KeyboardState, v), v)
           = SetKeyboardPitchRatio(KeyboardState, v)

\* C22: between blocks the throttle counter is the number of started blocks modulo 8
\* and the number of snapshots posted is the number of started blocks divided by 8,
\* whether or not renderer calls failed; the snapshot count changes only at the end
\* of a block whose number is a multiple of 8, and is 0 before start.
C22_SnapshotEveryEighthBlock ==
  /\ [](/\ pc = "idle" =>
             /\ vizUpdateCounter \in 0..7
             /\ vizUpdateCounter = blocks % 8
             /\ vizPosted = blocks \div 8
        /\ ~started => (vizPosted = 0 /\ vizUpdateCounter = 0))
  /\ [][/\ vizPosted' # vizPosted =>
             (pc = "publish" /\ vizPosted' = vizPosted + 1 /\ (blocks + 1) % 8 = 0)
        /\ (pc = "publish" /\ pc' = "idle" /\ (blocks + 1) % 8 = 0) =>
             vizPosted' = vizPosted + 1]_vars

\* The second snapshot posted, in a block whose render failed, after a block whose
\* event submission failed.
C22_Witness ==
  /\ pc = "idle" /\ blocks = 16 /\ vizPosted = 2
  /\ "render" \in blockFaults /\ "add_amplitude_events" \in prevFaults

\* C23: a sinAt call changes no field of the accumulator; sinAt calls with the same
\* arguments and no mutation in between return the sine of the same phase; and the
\* accumulator is in the state the same setRate, advance and resetPhase calls
\* produce without any sinAt call.
C23_SinAtLeavesStateAlone ==
  /\ [](/\ acc = accShadow
        /\ \A i, j \in 1..Len(sinCalls) :
             sinCalls[i].args = sinCalls[j].args => sinCalls[i].sinOf = sinCalls[j].sinOf)
  /\ [][AccSinAt => acc' = acc]_vars

\* Two sinAt calls with the same arguments after an advance that moved the phase.
C23_Witness ==
  /\ Len(sinCalls) = 2 /\ sinCalls[1].args = sinCalls[2].args
  /\ accSteps >= 1 /\ acc.phase # accAnchor.phase

InUnitInterval(x) == x[1] \in 0..15 /\ (x[1] > 0 \/ x[2] >= 0)

\* C25: whatever rates were set and phases reset to, with advances through
\* non-decreasing positions, getPhase() is at least 0 and less than 1.
C25_PhaseNormalized ==
  accForward => InUnitInterval(GetPhase(acc))

\* C26: while the falling modulator is enabled, whenever its gate can be evaluated
\* (after enabling and after every per-block update) the landed set is {0..k-1} for
\* some k in 0..31 and the migrator is at an index in 1..31.
C26_FallingStateInvariant ==
  falling.enabled =>
    /\ falling.pos \in 1..(FALLING_COUNT - 1)
    /\ \E k \in 0..(FALLING_COUNT - 1) : falling.landed = 0..(k - 1)

\* Enabled, with all but one index landed and the last migrator one step from landing.
C26_Witness ==
  /\ falling.enabled /\ fallingLast = "moved"
  /\ Cardinality(falling.landed) = FALLING_COUNT - 1
  /\ falling.pos = 1

FallingUpdate == FallingUpdateStep \/ FallingUpdateStay

\* C27: a per-block update of the enabled modulator moves the migrator down by at
\* most one; when the migrator reaches 0 it restarts at 31 and one index (the size of
\* the landed set) lands, unless that makes 32, in which case the set is emptied;
\* no other update changes the landed set.
C27_FallingTransitions ==
  [][(FallingUpdate /\ falling.enabled) =>
       IF falling.pos = 1 /\ falling'.pos = FALLING_START
         THEN IF Cardinality(falling.landed) = FALLING_COUNT - 1
                THEN falling'.landed = {}
                ELSE /\ falling'.landed = falling.landed \cup {Cardinality(falling.landed)}
                     /\ Cardinality(falling'.landed) = Cardinality(falling.landed) + 1
         ELSE /\ falling'.pos \in {falling.pos, falling.pos - 1}
              /\ falling'.pos >= 1
              /\ falling'.landed = falling.landed]_vars

\* The landed set just emptied by an update.
C27_Witness ==
  /\ falling.enabled /\ fallingLast = "emptied"
  /\ falling.landed = {} /\ falling.pos = FALLING_START

\* C28: if from some point on the modulator stays enabled, then (blocks running and
\* the random step taken again and again) migrators keep landing and the landed set
\* keeps being emptied.
C28_FallingProgress ==
  (<>[]falling.enabled /\ <>[][~MsgSetFallingEnabled]_vars) =>
    /\ []<><<falling.pos = 1 /\ falling'.pos = FALLING_START>>_vars
    /\ []<><<falling.landed # {} /\ falling'.landed = {}>>_vars

\* Enabled by a single message, and the last migrator but one of a cycle landed.
C28_Witness ==
  /\ falling.enabled /\ fallingLast = "landed" /\ fallingMsgs = 1
  /\ Cardinality(falling.landed) = FALLING_COUNT - 1

\* C29: an amplitude computed with the gate modulator enabled and the gate closed is
\* 0, for the interval event and for point B, whatever the other modulators give;
\* and the gate factor is 1 when the gate is open or its modulator disabled.
C29_ClosedGateSilences ==
  ~IsNull(ampEval) =>
    /\ Val(ampEval).gate = 0 =>
         (Val(ampEval).scheduled = Finite(0) /\ Val(ampEval).pointB = Finite(0))
    /\ Val(ampEval).gate \in {0, 1}

\* C30: every interval-scheduled frequency event and every override point B emitted
\* for partial index i carries baseFreq x r x (i + 1), r being the current keyboard
\* pitch ratio with the pitch modulator enabled and 1 with it disabled, whatever the
\* state of the amplitude modulators (the gate).
C30_FrequencyValues ==
  Scheduled =>
    \A k \in 1..Len(FreqSections) :
      LET s == FreqSections[k]
          partialNum == CHOOSE i \in Partials : sineIds[i] = s.id
          f == baseFreq * PitchFactor(keyboardPitchEnabled, keyboardPitchRatio) * partialNum
      IN  IF s.override
            THEN s.count = 2 /\ s.events[2].value = f
            ELSE \A e \in 1..Len(s.events) : s.events[e].value = f

\* A block with a control edge scheduled with the pitch modulator enabled, ratio 2,
\* and the gate modulator enabled and closed.
C30_Witness ==
  /\ Scheduled /\ overrideBlock
  /\ keyboardPitchEnabled /\ keyboardPitchRatio = 2
  /\ keyboardGateEnabled /\ ~keyboardGateOpen
  /\ Len(FreqSections) = 2 * NUM_PARTIALS
  /\ \E k \in 1..Len(FreqSections) :
       ~FreqSections[k].override /\ FreqSections[k].count >= 1

\* C31: the evaluator of a disabled modulator, the falling-harmonic gate and the
\* keyboard gate included, returns 1.0, and with every modulator disabled every
\* amplitude computed for an event is 1/16.
C31_DisabledModulatorsNeutral ==
  ~IsNull(ampEval) =>
    LET e == Val(ampEval)
    IN  /\ \A m \in DOMAIN e.values : m \notin e.enabled => e.values[m] = Finite(1)
        /\ "keyboardGate" \notin e.enabled => e.gate = 1
        /\ e.enabled = {} =>
             (e.scheduled = Finite(1) /\ e.pointA = Finite(1) /\ e.pointB = Finite(1))

\* Amplitudes computed with every modulator disabled, for the last partial, after the
\* falling modulator was switched on and off again.
C31_Witness ==
  /\ ~IsNull(ampEval)
  /\ Val(ampEval).enabled = {} /\ Val(ampEval).partial = FALLING_START
  /\ fallingMsgs >= 2

\* The comb value of harmonic n computed with only the comb enabled and spacing 4.
CombAt(n) ==
  /\ ~IsNull(combEval)
  /\ Val(combEval).onlyComb /\ Val(combEval).spacing = 4 /\ Val(combEval).partialNum = n

\* C32 (as stated): with only the comb enabled, spacing 4 and phase 0, harmonics 4
\* and 12 evaluate to 1 and harmonics 2, 6 and 10 to 0.
C32_CombPeaksAtFour ==
  /\ \A n \in {4, 12} : CombAt(n) => Val(combEval).value = <<4, 0>>
  /\ \A n \in {2, 6, 10} : CombAt(n) => Val(combEval).value = <<0, 0>>

\* C32 (amended): with only the comb enabled, spacing 4 and phase 0, the value for
\* harmonic n is 0.5 + 0.5 cos(n pi/4): 1 at 8, 16, 24 and 32, 0 at 4, 12, 20 and 28,
\* 0.5 at 2, 6, 10, ..., and 0.5 +- sqrt(2)/4 at the odd harmonics.
C32_CombPeaksAtEight ==
  \A n \in Harmonics :
    CombAt(n) =>
      Val(combEval).value =
        (IF n % 8 = 0 THEN <<4, 0>>
         ELSE IF n % 8 = 4 THEN <<0, 0>>
         ELSE IF n % 4 = 2 THEN <<2, 0>>
         ELSE IF n % 8 \in {1, 7} THEN <<2, 1>>
         ELSE <<2, 0 - 1>>)

C32_Witness == CombAt(12) /\ Val(combEval).value = <<0, 0>>

\* Some section of the batch holds an event.
HoldsEvent(secs) == \E k \in 1..Len(secs) : secs[k].count > 0

\* C33: hasAmplitudeEvents() (resp. hasFrequencyEvents()) is true exactly when the
\* amplitude (resp. frequency) buffer holds at least one event added since the last
\* beginFrame.
C33_HasEventsIffEventAdded ==
  /\ HasAmplitudeEvents(scheduler) <=> HoldsEvent(AmpSections)
  /\ HasFrequencyEvents(scheduler) <=> HoldsEvent(FreqSections)

\* C34: after reset(), from any prior state, getLastSample() is null and the interval
\* is what it was; and the generateSamples(blockStart, target) sequence run next
\* starts at blockStart, not one interval past the cursor the reset discarded.
C34_ResetClearsCursor ==
  /\ ~IsNull(trkBeforeReset) =>
       (IsNull(trk.lastSample) /\ trk.interval = Val(trkBeforeReset).interval)
  /\ \A k \in 1..Len(gens) :
       (~IsNull(genObs[k].beforeReset) /\ gens[k].blockStart <= gens[k].targetSample)
         => /\ genObs[k].out # <<>>
            /\ genObs[k].out[1] = gens[k].blockStart

\* A sequence run right after a reset that discarded a cursor, at a block start other
\* than one interval past that cursor.
C34_Witness ==
  \E k \in 1..Len(gens) :
    /\ ~IsNull(genObs[k].beforeReset)
    /\ ~IsNull(Val(genObs[k].beforeReset).lastSample)
    /\ genObs[k].out # <<>>
    /\ gens[k].blockStart
         # Val(Val(genObs[k].beforeReset).lastSample) + trk.interval

\* C35: in steady state no started block allocates on the heap: the telemetry step at
\* the end of a block creates no object.
C35_NoAllocationInSteadyState ==
  [][(pc = "publish" /\ pc' = "idle") => SnapshotAllocations(vizUpdateCounter + 1) = 0]_vars

\* The number of buffer entries the sections take: 3 + 2 x count each.
RECURSIVE SectionsLength(_, _)
SectionsLength(secs, k) ==
  IF k > Len(secs) THEN 0 ELSE 3 + 2 * secs[k].count + SectionsLength(secs, k + 1)

Headers(secs) == [k \in 1..Len(secs) |-> <<secs[k].id, secs[k].override>>]

WellFormed(secs, offset) ==
  /\ SectionsLength(secs, 1) = offset
  /\ \A k \in 1..Len(secs) :
       /\ secs[k].count \in 0..MAX_EVENTS_PER_SINE
       /\ Len(secs[k].events) = secs[k].count

\* C36: at every flush of the control loop each buffer view is as long as its write
\* offset and parses into sections [id, count, flag, (sample, value) x count] with
\* nothing left over, each count (0..8) being the number of events in its section;
\* no section is open; and both buffers carry the same (sine id, override) headers.
C36_FlushedBuffersWellFormed ==
  (pc \in {"sendAmp", "sendFreq"}) =>
    /\ IsNull(scheduler.currentSineId)
    /\ Len(GetAmplitudeBuffer(scheduler)) = scheduler.ampOffset
    /\ Len(GetFrequencyBuffer(scheduler)) = scheduler.freqOffset
    /\ WellFormed(AmpSections, scheduler.ampOffset)
    /\ WellFormed(FreqSections, scheduler.freqOffset)
    /\ Headers(AmpSections) = Headers(FreqSections)

\* The flush of a later block with a control edge: override sections of 2 events and
\* normal sections of 1, after a block with 3 events per section.
C36_Witness ==
  /\ pc = "sendAmp" /\ overrideBlock /\ blocks >= 1
  /\ Len(AmpSections) = 2 * NUM_PARTIALS
  /\ \E k \in 1..Len(AmpSections) : AmpSections[k].override /\ AmpSections[k].count = 2
  /\ \E k \in 1..Len(AmpSections) : ~AmpSections[k].override /\ AmpSections[k].count = 1

\* The calls of a block so far, in the order of the claim: the three of the block
\* start, then each submission at most once, then render.
BlockCallsUpTo(amp, freq, rendered) ==
  <<"get_current_sample_position", "lfo.advance", "beginFrame">>
    \o (IF amp THEN <<"add_amplitude_events">> ELSE <<>>)
    \o (IF freq THEN <<"add_frequency_events">> ELSE <<>>)
    \o (IF rendered THEN <<"render">> ELSE <<>>)

\* C37: in every started block the sample position is read once, then the LFO is
\* advanced once, then beginFrame is called once, then the amplitude events are
\* submitted at most once, then the frequency events at most once, then render is
\* called exactly once and nothing is submitted after it; and in a batch the override
\* section of a sine comes before that sine's normal section.
C37_BlockOrder ==
  /\ pc \in {"inject", "schedule", "sendAmp"} => blockCalls = BlockCallsUpTo(FALSE, FALSE, FALSE)
  /\ pc = "sendFreq" => \E a \in BOOLEAN : blockCalls = BlockCallsUpTo(a, FALSE, FALSE)
  /\ pc = "render" => \E a, f \in BOOLEAN : blockCalls = BlockCallsUpTo(a, f, FALSE)
  /\ (pc = "publish" \/ (pc = "idle" /\ blocks >= 1)) =>
       \E a, f \in BOOLEAN : blockCalls = BlockCallsUpTo(a, f, TRUE)
  /\ Scheduled =>
       \A j, k \in 1..Len(AmpSections) :
         /\ (AmpSections[j].id = AmpSections[k].id
               /\ AmpSections[j].override /\ ~AmpSections[k].override) => j < k
         /\ (FreqSections[j].id = FreqSections[k].id
               /\ FreqSections[j].override /\ ~FreqSections[k].override) => j < k

\* A block with a control edge after its render: every call made, the batch holding an
\* override and a normal section per sine.
C37_Witness ==
  /\ pc = "publish" /\ overrideBlock /\ blocks >= 1
  /\ blockCalls = BlockCallsUpTo(TRUE, TRUE, TRUE)
  /\ Len(AmpSections) = 2 * NUM_PARTIALS

\* C38: a block injects override pairs exactly when a gate or pitch-ratio message was
\* handled since the previous override (or since construction), a message handled
\* before the start included: such a message raises the pending flag, only the
\* injection lowers it, the block start goes to the injection exactly when it is up,
\* and overrides are emitted only there; after every block the flag is down and the
\* previous-state fields equal the current gate and pitch ratio.
C38_OverrideIffEdgePending ==
  /\ [][(MsgSetKeyboardGate \/ MsgSetKeyboardPitchRatio) => needsImmediateEvent']_vars
  /\ [][(~needsImmediateEvent /\ needsImmediateEvent')
          => (MsgSetKeyboardGate \/ MsgSetKeyboardPitchRatio)]_vars
  /\ [][(needsImmediateEvent /\ ~needsImmediateEvent') => pc = "inject"]_vars
  /\ [][(pc = "idle" /\ pc' # "idle") => (pc' = "inject" <=> needsImmediateEvent)]_vars
  /\ [][pc = "inject" =>
          /\ overrides' = overrides + 1 /\ overrideBlock'
          /\ \A k \in 1..Len(AmpSections') : AmpSections'[k].override]_vars
  /\ [][overrides' # overrides => pc = "inject"]_vars
  /\ [][pc = "schedule" =>
          \A k \in 1..Len(AmpSections') :
            (AmpSections'[k].override \/ FreqSections'[k].override)
              => (overrideBlock /\ k <= Len(AmpSections))]_vars
  /\ [][(pc = "publish" /\ pc' = "idle") =>
          /\ ~needsImmediateEvent'
          /\ prevKeyboardGateOpen' = keyboardGateOpen'
          /\ prevKeyboardPitchRatio' = keyboardPitchRatio']_vars

\* After the second started block, each of the two having injected an override: the
\* first for a message handled before that block, the second for a gate closed and a
\* ratio doubled after it.
C38_Witness ==
  /\ pc = "idle" /\ blocks = 2 /\ overrides = 2
  /\ ~needsImmediateEvent
  /\ ~keyboardGateOpen /\ ~prevKeyboardGateOpen
  /\ keyboardPitchRatio = 2 /\ prevKeyboardPitchRatio = 2

\* A generator consumed to the end: the tracker it leaves and the values it yielded.
RECURSIVE RunGenerator(_, _, _)
RunGenerator(t, g, out) ==
  LET r == GenNext(t, g)
  IN  IF r.gen.state = "done" THEN [trk |-> r.trk, out |-> out]
      ELSE RunGenerator(r.trk, r.gen, Append(out, Val(r.yielded)))

\* generateSamples(currentSample, blockEnd + 128) consumed for the block at `start`.
TrackerBlock(t, start) ==
  RunGenerator(t, NewGenerator(start, start + BLOCK_SIZE + EVENT_INTERVAL), <<>>)

\* An EventTimestampTracker of interval 128 fed the first n blocks.
RECURSIVE TrackerAfterBlocks(_)
TrackerAfterBlocks(n) ==
  IF n = 0 THEN NewTracker(EVENT_INTERVAL)
  ELSE TrackerBlock(TrackerAfterBlocks(n - 1), (n - 1) * BLOCK_SIZE).trk

\* C39: as long as no block has injected an override, the timestamps the control loop
\* emits in a block, for each partial and stream, are those an EventTimestampTracker
\* of interval 128 fed the same blocks yields for generateSamples(currentSample,
\* blockEnd + 128), and the cursor after the block is the tracker's getLastSample().
C39_LoopRefinesTracker ==
  (Scheduled /\ overrides = 0) =>
    /\ currentSample = blocks * BLOCK_SIZE
    /\ \A i \in Partials :
         LET r == TrackerBlock(TrackerAfterBlocks(blocks), currentSample)
         IN  /\ NormalSamples(AmpSections, 1, sineIds[i]) = r.out
             /\ NormalSamples(FreqSections, 1, sineIds[i]) = r.out
             /\ lastAmpEventSample[i] = r.trk.lastSample
             /\ lastFreqEventSample[i] = r.trk.lastSample

\* The fourth block of a run without override: the tracker resumes one interval past
\* the cursor of the third.
C39_Witness ==
  /\ Scheduled /\ overrides = 0 /\ blocks = 3
  /\ NormalSamples(AmpSections, 1, sineIds[1]) = <<5 * EVENT_INTERVAL>>
  /\ lastFreqEventSample[NUM_PARTIALS] = Some(5 * EVENT_INTERVAL)

\* C40: in the single-voice ToneProcessor the start_voice and stop_voice calls
\* alternate strictly, the first being start_voice and each stop_voice naming the
\* voice started before it; a voice is held exactly between a start_voice and the
\* stop_voice after it; the commands are visited in the order of their arrival,
\* all of them by the first ready block after they arrived; and the command queue
\* is empty after every ready block. A processor that is not ready visits none.
C40_StartStopAlternate ==
  /\ \A k \in 1..Len(voiceCalls) :
       /\ voiceCalls[k].fn = (IF k % 2 = 1 THEN "start_voice" ELSE "stop_voice")
       /\ ~IsNull(voiceCalls[k].id)
       /\ k % 2 = 0 => voiceCalls[k].id = voiceCalls[k - 1].id
  /\ IsNull(voiceId) <=> Len(voiceCalls) % 2 = 0
  /\ ~IsNull(voiceId) => voiceId = voiceCalls[Len(voiceCalls)].id
  /\ \A k \in 1..Len(toneHandled) : toneHandled[k].seq = k
  /\ \A k \in 1..Len(commandQueue) : commandQueue[k].seq = Len(toneHandled) + k
  /\ Len(toneHandled) + Len(commandQueue) = toneArrived
  /\ (toneReady /\ toneLast = "process") => commandQueue = <<>>
  /\ ~toneReady => (toneHandled = <<>> /\ voiceCalls = <<>>)

\* One ready block has visited start, start, stop, stop: the second start and the
\* second stop made no call.
C40_Witness ==
  /\ toneReady
  /\ toneLast = "process"
  /\ toneBlocks = 1
  /\ Len(toneHandled) = 4
  /\ [k \in 1..4 |-> toneHandled[k].msg.command] = <<"start", "start", "stop", "stop">>
  /\ Len(voiceCalls) = 2
  /\ commandQueue = <<>>

====
